---- MODULE Spec2Model ----
(***************************************************************************)
(* A model of the particle engine's simulation pipeline                    *)
(* (src/engine/physics): Particle, forces, integrate_particle,             *)
(* SpatialHashGrid, circle_circle, the containers, resolve_contact,        *)
(* positional_correction, DistanceConstraint and ParticleSystem.step.      *)
(*                                                                         *)
(* Numbers.  The code computes on Python floats.  Here a float is a        *)
(* fixed-point number: the integer n stands for n / SCALE.  A product or   *)
(* quotient of two such numbers is rounded toward zero to the next         *)
(* multiple of 1 / SCALE (Mul, Div).  Squared lengths are kept exactly, in *)
(* units of 1 / SCALE^2 (length_squared, Sq), so every comparison of       *)
(* squares is made on exact values.  A comparison against one of the       *)
(* code's 1e-8 / 1e-6 epsilons is a comparison against EPSILON, the        *)
(* smallest positive number of the representation: for non-negative x,     *)
(* x < EPSILON holds exactly when x = 0.                                   *)
(*                                                                         *)
(* Objects.  A Particle object is a handle 1..MaxParticles into heap; the  *)
(* handle 0 is a StaticBody().  id(p) is addr[p], an arbitrary injective   *)
(* numbering that two runs of the program need not share.  The dataclass   *)
(* declares no acceleration field: an instance has the attribute only if   *)
(* its owner assigned one, so p.acceleration is NoAttr or <<vector>>.      *)
(***************************************************************************)
EXTENDS Integers, Sequences, FiniteSets, TLC

\* ------------------------------------------------------------ numbers ---

SCALE == 1000

Abs(a) == IF a < 0 THEN -a ELSE a

Min(a, b) == IF a < b THEN a ELSE b

Max(a, b) == IF a > b THEN a ELSE b

MulNat(a, b) == (a \div SCALE) * b + ((a % SCALE) * b) \div SCALE

\* a * b on floats
Mul(a, b) ==
    IF (a < 0) = (b < 0) THEN MulNat(Abs(a), Abs(b)) ELSE -MulNat(Abs(a), Abs(b))

\* a / b on floats, b # 0
Div(a, b) ==
    IF (a < 0) = (b < 0) THEN (Abs(a) * SCALE) \div Abs(b)
    ELSE -((Abs(a) * SCALE) \div Abs(b))

RECURSIVE SqrtSearch(_, _, _)
SqrtSearch(n, lo, hi) ==
    IF lo >= hi THEN lo
    ELSE LET mid == (lo + hi + 1) \div 2
         IN  IF mid * mid <= n THEN SqrtSearch(n, mid, hi)
             ELSE SqrtSearch(n, lo, mid - 1)

\* math.sqrt of a number given in units of 1 / SCALE^2; the result is in
\* units of 1 / SCALE
SqrtOfSq(n) == SqrtSearch(n, 0, 46340)

\* a * a, exact, in units of 1 / SCALE^2
Sq(a) == a * a

\* base ** e for 0 <= base <= 1 and e >= 0: whole powers by repeated
\* multiplication, the fractional part of e bit by bit with square roots
RECURSIVE PowFrac(_, _, _)
PowFrac(base, e, bits) ==
    IF bits = 0 \/ e = 0 THEN SCALE
    ELSE LET root == SqrtOfSq(base * SCALE)
         IN  IF 2 * e >= SCALE
             THEN Mul(root, PowFrac(root, 2 * e - SCALE, bits - 1))
             ELSE PowFrac(root, 2 * e, bits - 1)

RECURSIVE pow(_, _)
pow(base, e) ==
    IF e >= SCALE THEN Mul(base, pow(base, e - SCALE))
    ELSE PowFrac(base, e, 10)

\* ------------------------------------------------------------- Vec2 -----

Vec2(x, y) == [x |-> x, y |-> y]

VecAdd(a, b) == Vec2(a.x + b.x, a.y + b.y)

VecSub(a, b) == Vec2(a.x - b.x, a.y - b.y)

VecMul(v, scalar) == Vec2(Mul(v.x, scalar), Mul(v.y, scalar))

\* Vec2.__truediv__: multiplies by the inverse of the scalar
VecDiv(v, scalar) ==
    LET inv == Div(SCALE, scalar) IN Vec2(Mul(v.x, inv), Mul(v.y, inv))

length_squared(v) == Sq(v.x) + Sq(v.y)

length(v) == SqrtOfSq(Sq(v.x) + Sq(v.y))

dot(a, b) == Mul(a.x, b.x) + Mul(a.y, b.y)

ZeroVec == Vec2(0, 0)

EPSILON == 1

\* --------------------------------------------------------- Particle -----

\* float("inf") as a mass: 1.0 / inf is 0.0, and Div(SCALE, INF) is 0
INF == 2000000000

NoAttr == << >>

\* a __post_init__ that rejects a mass of zero only
__post_init_rejecting_zero__(mass) ==
    IF mass = 0 THEN [raised |-> TRUE, inv_mass |-> 0]
    ELSE [raised |-> FALSE, inv_mass |-> Div(SCALE, mass)]

\* Particle.__post_init__: ValueError on mass <= 0.0, else inv_mass = 1.0 / mass
__post_init__(mass) ==
    IF mass <= 0 THEN [raised |-> TRUE, inv_mass |-> 0]
    ELSE [raised |-> FALSE, inv_mass |-> Div(SCALE, mass)]

\* Particle.__init__ and __post_init__ for a mass > 0
Particle(position, velocity, radius, mass, friction, restitution, damping) ==
    [ position |-> position, velocity |-> velocity, radius |-> radius,
      mass |-> mass, friction |-> friction, restitution |-> restitution,
      damping |-> damping, sleep_threshold |-> 50, alive |-> TRUE,
      force |-> ZeroVec, inv_mass |-> __post_init__(mass).inv_mass,
      sleeping |-> FALSE, sleep_timer |-> 0, acceleration |-> NoAttr ]

\* StaticBody(): class attributes only, no position and no sleeping
StaticBody ==
    [ inv_mass |-> 0, velocity |-> ZeroVec, restitution |-> 800,
      friction |-> 100, alive |-> TRUE ]

\* ----------------------------------------------------------- forces -----

Gravity(g) == [type |-> "Gravity", v |-> g, k |-> 0]

LinearDrag(k) == [type |-> "LinearDrag", v |-> ZeroVec, k |-> k]

WindForce(f) == [type |-> "WindForce", v |-> f, k |-> 0]

\* Force.apply(particle, dt) for Gravity, LinearDrag and WindForce
apply(force, p, dt) ==
    CASE force.type = "Gravity" ->
            IF p.inv_mass = 0 THEN p
            ELSE [p EXCEPT !.force = VecAdd(p.force, VecMul(force.v, p.mass))]
      [] force.type = "LinearDrag" ->
            [p EXCEPT !.force = VecAdd(p.force, VecMul(p.velocity, -force.k))]
      [] force.type = "WindForce" ->
            IF p.inv_mass = 0 THEN p
            ELSE [p EXCEPT !.force = VecAdd(p.force, force.v)]

RECURSIVE ApplyForces(_, _, _)
ApplyForces(forces, p, dt) ==
    IF forces = << >> THEN p
    ELSE ApplyForces(Tail(forces), apply(Head(forces), p, dt), dt)

\* -------------------------------------------------------- integrate -----

HALF == 500

SLEEP_DELAY == 300

DAMPING_CLAMP == 999

\* integrate_particle, lines 42-63: position, acceleration and velocity by
\* velocity Verlet, from the accelerations of the last frame and of this one
Verlet(p, dt, accel_old, accel_new) ==
    [p EXCEPT !.position =
                  Vec2(@.x + Mul(p.velocity.x, dt)
                           + Mul(Mul(HALF, accel_old.x), Mul(dt, dt)),
                       @.y + Mul(p.velocity.y, dt)
                           + Mul(Mul(HALF, accel_old.y), Mul(dt, dt))),
              !.acceleration = <<accel_new>>,
              !.velocity =
                  Vec2(@.x + Mul(Mul(HALF, accel_old.x + accel_new.x), dt),
                       @.y + Mul(Mul(HALF, accel_old.y + accel_new.y), dt))]

\* integrate_particle, lines 67-74: damping
Damped(p, dt) ==
    IF p.damping > 0
    THEN [p EXCEPT !.velocity =
                       VecMul(@, pow(SCALE - Min(p.damping, DAMPING_CLAMP), dt))]
    ELSE p

\* integrate_particle, lines 76-98: sleep detection, clearing the forces
SleepDetection(p, dt) ==
    IF length_squared(p.velocity) < Sq(p.sleep_threshold)
    THEN IF p.sleep_timer + dt >= SLEEP_DELAY
         THEN [p EXCEPT !.sleep_timer = @ + dt,
                        !.sleeping = TRUE,
                        !.velocity = ZeroVec,
                        !.force = ZeroVec,
                        !.acceleration = <<ZeroVec>>]
         ELSE [p EXCEPT !.sleep_timer = @ + dt, !.force = ZeroVec]
    ELSE [p EXCEPT !.sleep_timer = 0, !.force = ZeroVec]

\* integrate_particle(p, dt).  The result is the particle afterwards and
\* whether the call raised: reading p.acceleration of a particle without the
\* attribute raises AttributeError before anything is written.
integrate_particle(p, dt) ==
    IF ~p.alive THEN [p |-> p, raised |-> FALSE]
    ELSE IF p.sleeping THEN [p |-> p, raised |-> FALSE]
    ELSE IF p.inv_mass = 0 THEN
        [p |-> [p EXCEPT !.force = ZeroVec], raised |-> FALSE]
    ELSE IF p.acceleration = NoAttr THEN [p |-> p, raised |-> TRUE]
    ELSE [p |-> SleepDetection(
                    Damped(Verlet(p, dt, p.acceleration[1],
                                  Vec2(Mul(p.force.x, p.inv_mass),
                                       Mul(p.force.y, p.inv_mass))),
                           dt),
                    dt),
          raised |-> FALSE]

\* ------------------------------------------------- SpatialHashGrid -----

\* a constructor that rejects a cell size of zero only
SpatialHashGrid_rejecting_zero(size) ==
    IF size = 0 THEN [raised |-> TRUE, cell_size |-> 0, inv_cell_size |-> 0, cells |-> << >>]
    ELSE [raised |-> FALSE, cell_size |-> size, inv_cell_size |-> Div(SCALE, size),
          cells |-> << >>]

\* SpatialHashGrid.__init__(cell_size): ValueError on cell_size <= 0.0
SpatialHashGrid(size) ==
    IF size <= 0 THEN [raised |-> TRUE, cell_size |-> 0, inv_cell_size |-> 0, cells |-> << >>]
    ELSE [raised |-> FALSE, cell_size |-> size, inv_cell_size |-> Div(SCALE, size),
          cells |-> << >>]

\* The grid's cells dict is a sequence of [coord, items] entries in the
\* dict's (insertion) order, which is the order cells.values() iterates in.

\* math.floor(x * inv_cell_size), on the exact product
hash_axis(x, inv_cell_size) == (x * inv_cell_size) \div (SCALE * SCALE)

_hash_coord(x, y, inv_cell_size) ==
    <<hash_axis(x, inv_cell_size), hash_axis(y, inv_cell_size)>>

\* the cell of the box's min corner alone
_cell_of_min_corner(aabb_min, aabb_max, inv_cell_size) ==
    << _hash_coord(aabb_min.x, aabb_min.y, inv_cell_size) >>

\* _cells_for_aabb: cx outer, cy inner, both ascending
_cells_for_aabb(aabb_min, aabb_max, inv_cell_size) ==
    LET lo == _hash_coord(aabb_min.x, aabb_min.y, inv_cell_size)
        hi == _hash_coord(aabb_max.x, aabb_max.y, inv_cell_size)
        ny == hi[2] - lo[2] + 1
        nx == hi[1] - lo[1] + 1
    IN  [k \in 1..(nx * ny) |->
            <<lo[1] + ((k - 1) \div ny), lo[2] + ((k - 1) % ny)>>]

\* self.cells[coord].append(particle)
CellAppend(cells, coord, h) ==
    IF \E i \in 1..Len(cells) : cells[i].coord = coord
    THEN [i \in 1..Len(cells) |->
            IF cells[i].coord = coord
            THEN [cells[i] EXCEPT !.items = Append(@, h)]
            ELSE cells[i]]
    ELSE Append(cells, [coord |-> coord, items |-> <<h>>])

RECURSIVE InsertCoords(_, _, _)
InsertCoords(cells, coords, h) ==
    IF coords = << >> THEN cells
    ELSE InsertCoords(CellAppend(cells, Head(coords), h), Tail(coords), h)

\* SpatialHashGrid.insert(particle)
insert(cells, h, p, cell_sz) ==
    InsertCoords(cells,
                 _cells_for_aabb(Vec2(p.position.x - p.radius, p.position.y - p.radius),
                                 Vec2(p.position.x + p.radius, p.position.y + p.radius),
                                 Div(SCALE, cell_sz)),
                 h)

\* the (i, j), i < j, pairs of one cell, i outer and j inner
CellPairs(items) ==
    LET n == Len(items)
        idx == { <<i, j>> \in (1..n) \X (1..n) : i < j }
        \* rank of <<i, j>> in the loop order
        before(i, j) == Cardinality({ q \in idx : q[1] < i \/ (q[1] = i /\ q[2] < j) })
    IN  [k \in 1..Cardinality(idx) |->
            LET q == CHOOSE q \in idx : before(q[1], q[2]) = k - 1
            IN  <<items[q[1]], items[q[2]]>>]

RECURSIVE AllCellPairs(_)
AllCellPairs(cells) ==
    IF cells = << >> THEN << >>
    ELSE CellPairs(Head(cells).items) \o AllCellPairs(Tail(cells))

\* key = (id(a), id(b)) if id(a) < id(b) else (id(b), id(a))
PairKey(a, b, ids) ==
    IF ids[a] < ids[b] THEN <<ids[a], ids[b]>> ELSE <<ids[b], ids[a]>>

\* every candidate pair of every cell, with no look at the keys seen
EveryCellPair(cands, seen, result, ids) == cands

RECURSIVE UniquePairs(_, _, _, _)
UniquePairs(cands, seen, result, ids) ==
    IF cands = << >> THEN result
    ELSE LET a == Head(cands)[1]
             b == Head(cands)[2]
             key == PairKey(a, b, ids)
         IN  IF key \in seen THEN UniquePairs(Tail(cands), seen, result, ids)
             ELSE UniquePairs(Tail(cands), seen \cup {key},
                              Append(result, <<a, b>>), ids)

\* the unique pairs, each appended in the order of its key: lower id first
compute_pairs_in_key_order(cells, ids) ==
    LET pairs == UniquePairs(AllCellPairs(cells), {}, << >>, ids)
    IN  [k \in 1..Len(pairs) |->
            IF ids[pairs[k][1]] < ids[pairs[k][2]] THEN pairs[k]
            ELSE <<pairs[k][2], pairs[k][1]>>]

\* SpatialHashGrid.compute_pairs()
compute_pairs(cells, ids) == UniquePairs(AllCellPairs(cells), {}, << >>, ids)

\* ---------------------------------------------------- circle_circle -----

None == << >>

Contact(a, b, normal, penetration, contact_point) ==
    [a |-> a, b |-> b, normal |-> normal, penetration |-> penetration,
     contact_points |-> <<contact_point>>]

\* circle_circle with the early exit taken only beyond touching
circle_circle_touching(a, b, pa, pb) ==
    LET delta == VecSub(pb.position, pa.position)
        dist_sq == length_squared(delta)
        radius_sum == pa.radius + pb.radius
    IN  IF dist_sq > Sq(radius_sum) THEN None
        ELSE IF pa.inv_mass = 0 /\ pb.inv_mass = 0 THEN None
        ELSE IF dist_sq < Sq(EPSILON)
        THEN <<Contact(a, b, Vec2(SCALE, 0), radius_sum, pa.position)>>
        ELSE <<Contact(a, b, VecDiv(delta, SqrtOfSq(dist_sq)),
                       radius_sum - SqrtOfSq(dist_sq), pa.position)>>

\* circle_circle(a, b) on the particles pa, pb held by the handles a, b:
\* None or <<contact>>
circle_circle(a, b, pa, pb) ==
    LET delta == VecSub(pb.position, pa.position)
        dist_sq == length_squared(delta)
        radius_sum == pa.radius + pb.radius
        radius_sum_sq == Sq(radius_sum)
    IN  IF dist_sq >= radius_sum_sq THEN None
        ELSE IF pa.inv_mass = 0 /\ pb.inv_mass = 0 THEN None
        ELSE IF dist_sq < Sq(EPSILON)
        THEN <<Contact(a, b, Vec2(SCALE, 0), radius_sum, pa.position)>>
        ELSE LET distance == SqrtOfSq(dist_sq)
                 normal == VecDiv(delta, distance)
                 penetration == radius_sum - distance
             IN  <<Contact(a, b, normal, penetration,
                           VecAdd(pa.position,
                                  VecMul(normal, pa.radius - Mul(penetration, HALF))))>>

\* ------------------------------------------------------- containers -----

RectangleContainer(x, y, width, height) ==
    [type |-> "Rectangle", min |-> Vec2(x, y), max |-> Vec2(x + width, y + height),
     center |-> ZeroVec, radius |-> 0]

CircleContainer(center, radius) ==
    [type |-> "Circle", min |-> ZeroVec, max |-> ZeroVec,
     center |-> center, radius |-> radius]

\* generate_contacts testing the left and right walls only
RectangleContacts_x_only(box, h, p) ==
    (IF p.position.x - p.radius < box.min.x
     THEN <<Contact(h, 0, Vec2(-SCALE, 0), box.min.x - (p.position.x - p.radius),
                    Vec2(box.min.x + p.radius, p.position.y))>>
     ELSE << >>)
    \o (IF p.position.x + p.radius > box.max.x
        THEN <<Contact(h, 0, Vec2(SCALE, 0), (p.position.x + p.radius) - box.max.x,
                       Vec2(box.max.x - p.radius, p.position.y))>>
        ELSE << >>)

\* RectangleContainer.generate_contacts(p); the body b is a StaticBody()
RectangleContacts(box, h, p) ==
    LET r == p.radius
        left == IF p.position.x - r < box.min.x
                THEN <<Contact(h, 0, Vec2(-SCALE, 0), box.min.x - (p.position.x - r),
                               Vec2(box.min.x + r, p.position.y))>>
                ELSE << >>
        right == IF p.position.x + r > box.max.x
                 THEN <<Contact(h, 0, Vec2(SCALE, 0), (p.position.x + r) - box.max.x,
                                Vec2(box.max.x - r, p.position.y))>>
                 ELSE << >>
        top == IF p.position.y - r < box.min.y
               THEN <<Contact(h, 0, Vec2(0, -SCALE), box.min.y - (p.position.y - r),
                              Vec2(p.position.x, box.min.y + r))>>
               ELSE << >>
        bottom == IF p.position.y + r > box.max.y
                  THEN <<Contact(h, 0, Vec2(0, SCALE), (p.position.y + r) - box.max.y,
                                 Vec2(p.position.x, box.max.y - r))>>
                  ELSE << >>
    IN  left \o right \o top \o bottom

\* CircleContainer.generate_contacts(p)
CircleContacts(c, h, p) ==
    LET delta == VecSub(p.position, c.center)
        dist == length(delta)
    IN  IF dist < EPSILON
        THEN <<Contact(h, 0, Vec2(SCALE, 0), c.radius - p.radius,
                       VecAdd(c.center, VecMul(Vec2(SCALE, 0), c.radius - p.radius)))>>
        ELSE IF dist + p.radius <= c.radius THEN << >>
        ELSE LET normal == VecDiv(delta, dist)
             IN  <<Contact(h, 0, normal, dist + p.radius - c.radius,
                           VecAdd(c.center, VecMul(normal, c.radius - p.radius)))>>

\* Container.generate_contacts(particle)
generate_contacts(container, h, p) ==
    IF container.type = "Rectangle" THEN RectangleContacts(container, h, p)
    ELSE CircleContacts(container, h, p)

\* ----------------------------------------------------------- solver -----

RESTING_VELOCITY_THRESHOLD == 1000

WAKE_THRESHOLD_VELOCITY == 100

WAKE_THRESHOLD_PENETRATION == 100

\* the object a handle refers to: 0 is a StaticBody()
Body(heap, h) == IF h = 0 THEN StaticBody ELSE heap[h]

SetBody(heap, h, body) == IF h = 0 THEN heap ELSE [heap EXCEPT ![h] = body]

\* hasattr(x, "sleeping") and x.sleeping
IsSleeping(heap, h) == h # 0 /\ heap[h].sleeping

\* the impulse subtracted from both velocities
ApplyImpulseSameSign(heap, contact, impulse) ==
    LET a == Body(heap, contact.a)
        b == Body(heap, contact.b)
    IN  SetBody(SetBody(heap, contact.a,
                        IF a.inv_mass > 0
                        THEN [a EXCEPT !.velocity =
                                 Vec2(@.x - Mul(impulse.x, a.inv_mass),
                                      @.y - Mul(impulse.y, a.inv_mass))]
                        ELSE a),
                contact.b,
                IF b.inv_mass > 0
                THEN [b EXCEPT !.velocity =
                         Vec2(@.x - Mul(impulse.x, b.inv_mass),
                              @.y - Mul(impulse.y, b.inv_mass))]
                ELSE b)

\* resolve_contact, lines 112-118 and 161-167: a.velocity -= impulse *
\* inv_mass_a and b.velocity += impulse * inv_mass_b, each only on a body
\* with inv_mass > 0
ApplyImpulse(heap, contact, impulse) ==
    LET a == Body(heap, contact.a)
        b == Body(heap, contact.b)
    IN  SetBody(SetBody(heap, contact.a,
                        IF a.inv_mass > 0
                        THEN [a EXCEPT !.velocity =
                                 Vec2(@.x - Mul(impulse.x, a.inv_mass),
                                      @.y - Mul(impulse.y, a.inv_mass))]
                        ELSE a),
                contact.b,
                IF b.inv_mass > 0
                THEN [b EXCEPT !.velocity =
                         Vec2(@.x + Mul(impulse.x, b.inv_mass),
                              @.y + Mul(impulse.y, b.inv_mass))]
                ELSE b)

\* a friction impulse applied along the contact normal
FrictionAlongNormal(heap, contact, j, rv, tangent) ==
    LET a == Body(heap, contact.a)
        b == Body(heap, contact.b)
        jt == Div(-dot(rv, tangent), a.inv_mass + b.inv_mass)
        mu == SqrtOfSq(a.friction * b.friction)
        max_friction == Mul(j, mu)
    IN  ApplyImpulse(heap, contact,
                     VecMul(contact.normal, Max(-max_friction, Min(jt, max_friction))))

\* resolve_contact, lines 140-167: the friction impulse along the unit
\* tangent, limited by mu times the normal impulse j
FrictionImpulse(heap, contact, j, rv, tangent) ==
    LET a == Body(heap, contact.a)
        b == Body(heap, contact.b)
        jt == Div(-dot(rv, tangent), a.inv_mass + b.inv_mass)
        mu == SqrtOfSq(a.friction * b.friction)
        max_friction == Mul(j, mu)
    IN  ApplyImpulse(heap, contact,
                     VecMul(tangent, Max(-max_friction, Min(jt, max_friction))))

\* resolve_contact, lines 120-167: friction on the velocities the normal
\* impulse left
Friction(heap, contact, j) ==
    LET rv == VecSub(Body(heap, contact.b).velocity, Body(heap, contact.a).velocity)
        tangent == VecSub(rv, VecMul(contact.normal, dot(rv, contact.normal)))
        tangent_len_sq == length_squared(tangent)
    IN  IF tangent_len_sq < Sq(EPSILON) THEN heap
        ELSE FrictionImpulse(heap, contact, j, rv,
                             VecDiv(tangent, SqrtOfSq(tangent_len_sq)))

\* resolve_contact, lines 106-167: the normal impulse j, then friction
NormalImpulse(heap, contact, j) ==
    Friction(ApplyImpulse(heap, contact, VecMul(contact.normal, j)), contact, j)

\* a wake-up in every contact, significant or not
WokenAlways(heap, h, significant_collision) ==
    IF IsSleeping(heap, h) /\ heap[h].inv_mass > 0
    THEN [heap EXCEPT ![h].sleeping = FALSE, ![h].sleep_timer = 0]
    ELSE heap

\* resolve_contact, lines 77-84: a.sleeping = False, a.sleep_timer = 0.0 on
\* a sleeping Particle with inv_mass > 0, if the collision is significant
Woken(heap, h, significant_collision) ==
    IF significant_collision /\ IsSleeping(heap, h) /\ heap[h].inv_mass > 0
    THEN [heap EXCEPT ![h].sleeping = FALSE, ![h].sleep_timer = 0]
    ELSE heap

\* a resolve_contact without the early exit for separating bodies
resolve_contact_of_separating(heap, contact) ==
    LET a == Body(heap, contact.a)
        b == Body(heap, contact.b)
        rv == VecSub(b.velocity, a.velocity)
        vel_along_normal == dot(rv, contact.normal)
        significant_collision ==
            \/ Abs(vel_along_normal) > WAKE_THRESHOLD_VELOCITY
            \/ contact.penetration > WAKE_THRESHOLD_PENETRATION
        restitution ==
            IF Abs(vel_along_normal) < RESTING_VELOCITY_THRESHOLD THEN 0
            ELSE Min(a.restitution, b.restitution)
    IN  IF ~a.alive \/ ~b.alive THEN heap
        ELSE IF a.inv_mass = 0 /\ b.inv_mass = 0 THEN heap
        ELSE NormalImpulse(Woken(Woken(heap, contact.a, significant_collision),
                                 contact.b, significant_collision),
                           contact,
                           Div(Mul(-(SCALE + restitution), vel_along_normal),
                               a.inv_mass + b.inv_mass))

\* resolve_contact(contact): the heap afterwards
resolve_contact(heap, contact) ==
    LET a == Body(heap, contact.a)
        b == Body(heap, contact.b)
        rv == VecSub(b.velocity, a.velocity)
        vel_along_normal == dot(rv, contact.normal)
        significant_collision ==
            \/ Abs(vel_along_normal) > WAKE_THRESHOLD_VELOCITY
            \/ contact.penetration > WAKE_THRESHOLD_PENETRATION
        restitution ==
            IF Abs(vel_along_normal) < RESTING_VELOCITY_THRESHOLD THEN 0
            ELSE Min(a.restitution, b.restitution)
    IN  IF ~a.alive \/ ~b.alive THEN heap
        ELSE IF a.inv_mass = 0 /\ b.inv_mass = 0 THEN heap
        ELSE IF vel_along_normal > 0 THEN heap
        ELSE NormalImpulse(Woken(Woken(heap, contact.a, significant_collision),
                                 contact.b, significant_collision),
                           contact,
                           Div(Mul(-(SCALE + restitution), vel_along_normal),
                               a.inv_mass + b.inv_mass))

PERCENT == 800

SLOP == 10

MAX_CORRECTION_PER_ITERATION == 2000

\* positional_correction, lines 184-222, with the values of its locals
\* percent and MAX_CORRECTION_PER_ITERATION as parameters
Correction(heap, contact, percent, max_correction) ==
    LET a == Body(heap, contact.a)
        b == Body(heap, contact.b)
        inv_mass_a == a.inv_mass
        inv_mass_b == b.inv_mass
        correction_mag ==
            Min(Mul(Div(Max(contact.penetration - SLOP, 0), inv_mass_a + inv_mass_b),
                    percent),
                max_correction)
        correction == VecMul(contact.normal, correction_mag)
        moved_a == IF inv_mass_a > 0
                   THEN [a EXCEPT !.position =
                            Vec2(a.position.x - Mul(correction.x, inv_mass_a),
                                 a.position.y - Mul(correction.y, inv_mass_a))]
                   ELSE a
        moved_b == IF inv_mass_b > 0
                   THEN [b EXCEPT !.position =
                            Vec2(b.position.x + Mul(correction.x, inv_mass_b),
                                 b.position.y + Mul(correction.y, inv_mass_b))]
                   ELSE b
    IN  IF inv_mass_a + inv_mass_b = 0 THEN heap
        ELSE SetBody(SetBody(heap, contact.a, moved_a), contact.b, moved_b)

\* a positional_correction without the limit on the correction
positional_correction_unlimited(heap, contact) ==
    Correction(heap, contact, PERCENT, INF)

\* positional_correction(contact): the heap afterwards; percent = 0.8 and
\* MAX_CORRECTION_PER_ITERATION = 2.0 are locals of the function
positional_correction(heap, contact) ==
    Correction(heap, contact, PERCENT, MAX_CORRECTION_PER_ITERATION)

\* ----------------------------------------------- DistanceConstraint -----

\* DistanceConstraint(particle_a, particle_b, distance, stiffness)
DistanceConstraint(particle_a, particle_b, distance, stiffness) ==
    [particle_a |-> particle_a, particle_b |-> particle_b,
     distance |-> distance, stiffness |-> Max(0, Min(SCALE, stiffness))]

\* DistanceConstraint.solve, lines 75-94: a particle with inv_mass > 0
\* moves by its share of the correction, and its velocity by the move / dt
Corrected(p, dt, move) ==
    IF p.inv_mass > 0
    THEN [p EXCEPT !.position = VecAdd(@, move),
                   !.velocity = IF dt > 0
                                THEN Vec2(@.x + Div(move.x, dt), @.y + Div(move.y, dt))
                                ELSE @]
    ELSE p

\* the correction split evenly between the two particles, whatever their
\* inverse masses
ApplyCorrectionEvenly(heap, self, dt, correction) ==
    [heap EXCEPT ![self.particle_a].position = VecAdd(@, VecMul(correction, HALF)),
                 ![self.particle_b].position = VecSub(@, VecMul(correction, HALF))]

\* DistanceConstraint.solve, lines 62-94
ApplyCorrection(heap, self, dt, correction) ==
    LET a == heap[self.particle_a]
        b == heap[self.particle_b]
        total_inv_mass == a.inv_mass + b.inv_mass
    IN  [heap EXCEPT ![self.particle_a] =
                         Corrected(a, dt,
                                   VecMul(correction, Div(a.inv_mass, total_inv_mass))),
                     ![self.particle_b] =
                         Corrected(b, dt,
                                   VecSub(ZeroVec,
                                          VecMul(correction,
                                                 Div(b.inv_mass, total_inv_mass))))]

\* DistanceConstraint.solve(dt): the heap afterwards
solve(heap, self, dt) ==
    LET a == heap[self.particle_a]
        b == heap[self.particle_b]
        delta == VecSub(b.position, a.position)
        current_distance == length(delta)
        error == current_distance - self.distance
    IN  IF ~a.alive \/ ~b.alive THEN heap
        ELSE IF current_distance < EPSILON THEN heap
        ELSE IF Abs(error) < EPSILON THEN heap
        ELSE IF a.inv_mass + b.inv_mass < EPSILON THEN heap
        ELSE ApplyCorrection(heap, self, dt,
                             VecMul(VecDiv(delta, current_distance),
                                    Mul(error, self.stiffness)))

\* --------------------------------------------- ParticleSystem.step -----

solver_iterations == 20

\* SpatialHashGrid(cell_size=2.0 * 10) of ParticleSystem.__init__
SYSTEM_CELL_SIZE == 20000

\* TLC evaluates an operator's arguments only when they are used; a loop
\* that hands its state to the next round first evaluates it
Evaluated(x) == x = x

\* one entry of the record of what a step did, in the order it did it
Ev(op, arg, iter) == [op |-> op, arg |-> arg, iter |-> iter]

\* step, lines 84-90: forces on every alive, awake particle
RECURSIVE ForcePhase(_, _, _, _, _)
ForcePhase(heap, ps, gforces, lforces, dt) ==
    IF Evaluated(heap) /\ ps # << >>
    THEN ForcePhase(IF ~heap[Head(ps)].alive \/ heap[Head(ps)].sleeping THEN heap
                    ELSE [heap EXCEPT ![Head(ps)] =
                            ApplyForces(lforces, ApplyForces(gforces, @, dt), dt)],
                    Tail(ps), gforces, lforces, dt)
    ELSE heap

\* integrate_particle(p, dt) on the particle h of the heap
IntegrateAt(heap, h, r) ==
    IF r.raised THEN [heap |-> heap, raised |-> TRUE]
    ELSE [heap |-> [heap EXCEPT ![h] = r.p], raised |-> FALSE]

\* step, lines 93-94: integrate_particle on every particle, in list order;
\* an exception leaves the loop and the step
RECURSIVE IntegratePhase(_, _, _)
IntegratePhase(st, ps, dt) ==
    IF Evaluated(st) /\ ~st.raised /\ ps # << >>
    THEN IntegratePhase(IntegrateAt(st.heap, Head(ps),
                                    integrate_particle(st.heap[Head(ps)], dt)),
                        Tail(ps), dt)
    ELSE st

\* step, lines 97-100: broadphase.clear(), then insert every alive particle
RECURSIVE InsertAlive(_, _, _, _)
InsertAlive(cells, heap, ps, cell_sz) ==
    IF ps = << >> THEN cells
    ELSE InsertAlive(IF heap[Head(ps)].alive
                     THEN insert(cells, Head(ps), heap[Head(ps)], cell_sz)
                     ELSE cells,
                     heap, Tail(ps), cell_sz)

\* step, lines 104-108: circle_circle on every candidate pair
RECURSIVE Narrowphase(_, _)
Narrowphase(heap, candidate_pairs) ==
    IF candidate_pairs = << >> THEN << >>
    ELSE LET a == Head(candidate_pairs)[1]
             b == Head(candidate_pairs)[2]
         IN  circle_circle(a, b, heap[a], heap[b])
                 \o Narrowphase(heap, Tail(candidate_pairs))

RECURSIVE ContainersContacts(_, _, _)
ContainersContacts(conts, h, p) ==
    IF conts = << >> THEN << >>
    ELSE generate_contacts(Head(conts), h, p) \o ContainersContacts(Tail(conts), h, p)

\* step, lines 110-114: container contacts of every alive particle
RECURSIVE ContainerPhase(_, _, _)
ContainerPhase(heap, ps, conts) ==
    IF ps = << >> THEN << >>
    ELSE (IF heap[Head(ps)].alive
          THEN ContainersContacts(conts, Head(ps), heap[Head(ps)])
          ELSE << >>)
         \o ContainerPhase(heap, Tail(ps), conts)

\* step, lines 119-120: resolve_contact on every contact, in list order
RECURSIVE ResolveAll(_, _, _, _)
ResolveAll(st, contacts, i, iter) ==
    IF Evaluated(st) /\ i <= Len(contacts)
    THEN ResolveAll([heap |-> resolve_contact(st.heap, contacts[i]),
                     log |-> Append(st.log, Ev("resolve_contact", i, iter))],
                    contacts, i + 1, iter)
    ELSE st

\* step, lines 123-125: solve on every constraint, in list order
RECURSIVE SolveAll(_, _, _, _, _)
SolveAll(st, cons, i, iter, dt) ==
    IF Evaluated(st) /\ i <= Len(cons)
    THEN SolveAll([heap |-> solve(st.heap, cons[i], dt),
                   log |-> Append(st.log, Ev("solve", i, iter))],
                  cons, i + 1, iter, dt)
    ELSE st

\* step, lines 118-125: the solver iterations
RECURSIVE SolverLoop(_, _, _, _, _)
SolverLoop(st, contacts, cons, iter, dt) ==
    IF Evaluated(st) /\ iter <= solver_iterations
    THEN SolverLoop(SolveAll(ResolveAll(st, contacts, 1, iter), cons, 1, iter, dt),
                    contacts, cons, iter + 1, dt)
    ELSE st

\* step, lines 128-129
RECURSIVE CorrectAll(_, _, _)
CorrectAll(st, contacts, i) ==
    IF Evaluated(st) /\ i <= Len(contacts)
    THEN CorrectAll([heap |-> positional_correction(st.heap, contacts[i]),
                     log |-> Append(st.log, Ev("positional_correction", i, 0))],
                    contacts, i + 1)
    ELSE st

\* ParticleSystem.remove_dead
remove_dead(heap, ps) ==
    LET Alive(h) == heap[h].alive IN SelectSeq(ps, Alive)

\* step, lines 131-132: remove_dead(), and what the call leaves behind
Returned(corrected, grid, integrated, contacts, ps) ==
    [heap |-> corrected.heap,
     particles |-> remove_dead(corrected.heap, ps),
     cells |-> grid, outcome |-> "returned",
     log |-> Append(corrected.log, Ev("remove_dead", 0, 0)),
     integrated |-> integrated, contacts |-> contacts]

\* step, lines 116-129: the solver iterations, then positional correction
Solved(integrated, grid, contacts, ps, cons, dt) ==
    Returned(CorrectAll(SolverLoop([heap |-> integrated,
                                    log |-> <<Ev("forces", 0, 0), Ev("integrate", 0, 0),
                                              Ev("broadphase", 0, 0),
                                              Ev("narrowphase", 0, 0),
                                              Ev("containers", 0, 0)>>],
                                   contacts, cons, 1, dt),
                        contacts, 1),
             grid, integrated, contacts, ps)

\* step, lines 102-114: narrowphase and container contacts
Detected(integrated, grid, ps, conts, cons, dt, ids) ==
    Solved(integrated, grid,
           Narrowphase(integrated, compute_pairs(grid, ids))
               \o ContainerPhase(integrated, ps, conts),
           ps, cons, dt)

\* step, lines 96-132, entered only if no integrate_particle call raised
Integrated(r, ps, cells, conts, cons, dt, ids) ==
    IF r.raised
    THEN [heap |-> r.heap, particles |-> ps, cells |-> cells, outcome |-> "raised",
          log |-> <<Ev("forces", 0, 0), Ev("integrate", 0, 0)>>,
          integrated |-> r.heap, contacts |-> << >>]
    ELSE Detected(r.heap, InsertAlive(<< >>, r.heap, ps, SYSTEM_CELL_SIZE),
                  ps, conts, cons, dt, ids)

\* ParticleSystem.step(dt) on a system whose Particle objects have the ids
\* `ids`: the fields it leaves, how it ended, and what it did
step(heap, ps, cells, is_paused, gforces, lforces, conts, cons, dt, ids) ==
    IF is_paused
    THEN [heap |-> heap, particles |-> ps, cells |-> cells, outcome |-> "paused",
          log |-> << >>, integrated |-> heap, contacts |-> << >>]
    ELSE Integrated(IntegratePhase([heap |-> ForcePhase(heap, ps, gforces, lforces, dt),
                                    raised |-> FALSE],
                                   ps, dt),
                    ps, cells, conts, cons, dt, ids)

\* ------------------------------------------------------------ state -----

\* ------------------------------------------- SimulationController -----

\* SimulationController()
SimulationController ==
    [paused |-> FALSE, _step_requested |-> FALSE, _reset_requested |-> FALSE]

toggle_pause(self) == [self EXCEPT !.paused = ~@]

request_step(self) ==
    IF self.paused THEN [self EXCEPT !._step_requested = TRUE] ELSE self

request_reset(self) == [self EXCEPT !.paused = TRUE, !._reset_requested = TRUE]

\* should_step that leaves the request in place
should_step_keeping_request(self) ==
    [self |-> self, ret |-> ~self.paused \/ self._step_requested]

\* should_step(): the controller afterwards and the value returned
should_step(self) ==
    IF ~self.paused THEN [self |-> self, ret |-> TRUE]
    ELSE IF self._step_requested
    THEN [self |-> [self EXCEPT !._step_requested = FALSE], ret |-> TRUE]
    ELSE [self |-> self, ret |-> FALSE]

\* should_reset(): the controller afterwards and the value returned
should_reset(self) ==
    IF self._reset_requested
    THEN [self |-> [self EXCEPT !._reset_requested = FALSE], ret |-> TRUE]
    ELSE [self |-> self, ret |-> FALSE]

VARIABLES
    heap,           \* the Particle objects created so far, by handle
    particles,      \* ParticleSystem.particles: a list of handles
    global_forces,  \* ParticleSystem.global_forces
    local_forces,   \* ParticleSystem.local_forces
    paused,         \* ParticleSystem.paused
    containers,     \* ParticleSystem.containers
    constraints,    \* ParticleSystem.constraints
    cell_size,      \* broadphase.cell_size
    cells,          \* broadphase.cells
    addr,           \* id() of each Particle object
    twin,           \* a second system, built and driven alike, other ids
    last,           \* what the last operation was, saw and did
    steps,          \* number of step() calls so far
    kills,          \* number of kill() calls so far
    solver_attrs,   \* attributes assigned to the solver module from outside
    controller,     \* the SimulationController of the main loop
    accumulator     \* main: the time not yet stepped, in halves of FIXED_DT

vars == <<heap, particles, global_forces, local_forces, paused, containers,
          constraints, cell_size, cells, addr, twin, last, steps, kills,
          solver_attrs, controller, accumulator>>

MaxParticles == 3

MaxSteps == 3

MaxKills == 1

\* the timesteps step() is called with
DTs == {100, 200}

Handles == 1..MaxParticles

\* two numberings of the objects that order every pair of them differently
Identity == [h \in Handles |-> h]

Reversed(ids) == [h \in Handles |-> MaxParticles + 1 - ids[h]]

\* p.acceleration = Vec2(0.0, 0.0), assigned by the particle's owner
WithAcceleration(p) == [p EXCEPT !.acceleration = <<ZeroVec>>]

\* Scenes, as a scene builder's build(system) leaves the system.

\* a particle at rest and a slow one closing in on it; no forces
ApproachScene ==
    [ps |-> << Particle(Vec2(20000, 5000), ZeroVec, 1000, 1000, 300, 400, 0),
               Particle(Vec2(17980, 5000), Vec2(80, 0), 1000, 1000, 300, 400, 0) >>,
     global_forces |-> << >>, local_forces |-> << >>,
     containers |-> << >>, constraints |-> << >>]

\* a pinned particle, one hanging from it, one overlapping it
RopeScene ==
    [ps |-> << Particle(Vec2(5000, 1000), ZeroVec, 1000, INF, 500, 200, 0),
               Particle(Vec2(5000, 4200), ZeroVec, 1000, 1000, 500, 200, 0),
               Particle(Vec2(6500, 1200), Vec2(-1500, 0), 1000, 2000, 500, 200, 0) >>,
     global_forces |-> << Gravity(Vec2(0, 200)) >>,
     local_forces |-> << LinearDrag(100) >>,
     containers |-> << RectangleContainer(0, 0, 10000, 10000) >>,
     constraints |-> << DistanceConstraint(1, 2, 3000, SCALE) >>]

\* two coincident particles and a fast one hitting them, across four cells
ClusterScene ==
    [ps |-> << Particle(Vec2(20000, 20000), ZeroVec, 1000, 1000, 300, 1000, 0),
               Particle(Vec2(20000, 20000), ZeroVec, 1000, 1000, 300, 1000, 0),
               Particle(Vec2(21500, 20000), Vec2(-2000, 500), 1000, 2000, 0, 1000, 0) >>,
     global_forces |-> << WindForce(Vec2(100, 0)) >>, local_forces |-> << >>,
     containers |-> << CircleContainer(Vec2(20000, 20000), 3000) >>,
     constraints |-> << >>]

\* a damped particle lying on the floor and one coming down on it
FloorScene ==
    [ps |-> << Particle(Vec2(5000, 9000), ZeroVec, 1000, 1000, 300, 400, 500),
               Particle(Vec2(5000, 6900), Vec2(0, 300), 1000, 1000, 300, 400, 0) >>,
     global_forces |-> << Gravity(Vec2(0, 200)) >>, local_forces |-> << >>,
     containers |-> << RectangleContainer(0, 0, 10000, 10000) >>,
     constraints |-> << DistanceConstraint(1, 2, 2000, 500) >>]

Scenes == {ApproachScene, RopeScene, ClusterScene, FloorScene}

\* the particles add_particle is called with after the scene is built
NewParticles == { Particle(Vec2(19000, 5500), Vec2(0, -500), 1000, 1000, 300, 400, 0) }

NoOp == [op |-> "none", after |-> "none", outcome |-> "none", log |-> << >>, dt |-> 0,
         prev_heap |-> << >>, prev_particles |-> << >>,
         integrated |-> << >>, contacts |-> << >>]

Init ==
    \E scene \in Scenes, attached \in SUBSET Handles, ids \in {Identity, Reversed(Identity)},
       p0 \in BOOLEAN :
        /\ heap = [h \in 1..Len(scene.ps) |->
                      IF h \in attached THEN WithAcceleration(scene.ps[h])
                      ELSE scene.ps[h]]
        /\ particles = [h \in 1..Len(scene.ps) |-> h]
        /\ global_forces = scene.global_forces
        /\ local_forces = scene.local_forces
        /\ paused = p0
        /\ containers = scene.containers
        /\ constraints = scene.constraints
        /\ cell_size = SYSTEM_CELL_SIZE
        /\ cells = << >>
        /\ addr = ids
        /\ twin = [heap |-> heap, particles |-> particles, cells |-> << >>]
        /\ last = NoOp
        /\ steps = 0
        /\ kills = 0
        /\ solver_attrs = NoAttr
        /\ controller = SimulationController
        /\ accumulator = 0

\* ---------------------------------------------------------- actions -----

\* ParticleSystem.step(dt), on the system and on its twin
Step(dt) ==
    /\ steps < MaxSteps
    /\ \E r \in {step(heap, particles, cells, paused, global_forces, local_forces,
                      containers, constraints, dt, addr)},
          t \in {step(twin.heap, twin.particles, twin.cells, paused, global_forces,
                      local_forces, containers, constraints, dt, Reversed(addr))} :
           /\ heap' = r.heap
           /\ particles' = r.particles
           /\ cells' = r.cells
           /\ twin' = [heap |-> t.heap, particles |-> t.particles, cells |-> t.cells]
           /\ last' = [op |-> "step", after |-> last.op, outcome |-> r.outcome,
                       log |-> r.log, dt |-> dt,
                       prev_heap |-> heap, prev_particles |-> particles,
                       integrated |-> r.integrated, contacts |-> r.contacts]
    /\ steps' = steps + 1
    /\ UNCHANGED <<global_forces, local_forces, paused, containers, constraints,
                   cell_size, addr, kills, solver_attrs, controller, accumulator>>

\* Particle.kill(), called by the application between steps
Kill(h) ==
    /\ kills < MaxKills
    /\ h \in 1..Len(heap)
    /\ heap[h].alive
    /\ heap' = [heap EXCEPT ![h].alive = FALSE]
    /\ twin' = [twin EXCEPT !.heap[h].alive = FALSE]
    /\ kills' = kills + 1
    /\ last' = [NoOp EXCEPT !.op = "kill"]
    /\ UNCHANGED <<particles, global_forces, local_forces, paused, containers,
                   constraints, cell_size, cells, addr, steps, solver_attrs,
                   controller, accumulator>>

\* a clear() that empties the constraints only
clear_constraints_only(ps) == ps

\* ParticleSystem.clear(): self.particles.clear(), the list afterwards
clear(ps) == << >>

\* ParticleSystem.clear(), called by the application between steps; forces,
\* containers and the broadphase cells stay as they are
Clear ==
    /\ steps < MaxSteps
    /\ particles' = clear(particles)
    /\ constraints' = << >>
    /\ twin' = [twin EXCEPT !.particles = clear(@)]
    /\ last' = [NoOp EXCEPT !.op = "clear"]
    /\ UNCHANGED <<heap, global_forces, local_forces, paused, containers,
                   cell_size, cells, addr, steps, kills, solver_attrs,
                   controller, accumulator>>

\* the particle a click at `point` selects: the last alive one in the list
\* that contains the point (0 if none)
RECURSIVE Clicked(_, _, _)
Clicked(hp, ps, point) ==
    IF ps = << >> THEN 0
    ELSE LET h == ps[Len(ps)]
             p == hp[h]
         IN  IF p.alive /\ length_squared(VecSub(point, p.position)) <= Sq(p.radius)
             THEN h
             ELSE Clicked(hp, SubSeq(ps, 1, Len(ps) - 1), point)

\* InteractionHandler.handle_event, mouse button down on a particle: the
\* selected particle's sleeping flag is cleared
Wake(h) ==
    /\ h \in 1..Len(heap)
    /\ LET sel == Clicked(heap, particles, heap[h].position)
       IN  /\ sel # 0
           /\ heap[sel].sleeping
           /\ heap' = [heap EXCEPT ![sel].sleeping = FALSE]
           /\ twin' = [twin EXCEPT !.heap[sel].sleeping = FALSE]
    /\ last' = [NoOp EXCEPT !.op = "wake"]
    /\ UNCHANGED <<particles, global_forces, local_forces, paused, containers,
                   constraints, cell_size, cells, addr, steps, kills, solver_attrs,
                   controller, accumulator>>

\* ParticleSystem.add_particle(Particle(...))
AddParticle(p) ==
    /\ Len(heap) < MaxParticles
    /\ heap' = Append(heap, p)
    /\ particles' = Append(particles, Len(heap) + 1)
    /\ twin' = [twin EXCEPT !.heap = Append(@, p),
                            !.particles = Append(@, Len(heap) + 1)]
    /\ last' = [NoOp EXCEPT !.op = "add"]
    /\ UNCHANGED <<global_forces, local_forces, paused, containers, constraints,
                   cell_size, cells, addr, steps, kills, solver_attrs,
                   controller, accumulator>>

Next ==
    \/ \E dt \in DTs : Step(dt)
    \/ \E h \in Handles : Kill(h)
    \/ \E h \in Handles : Wake(h)
    \/ \E p \in NewParticles : AddParticle(p)
    \/ Clear

Spec == Init /\ [][Next]_vars

\* --------------------------------------- a SpatialHashGrid by itself -----

\* AABB.overlaps(other) on boxes given by their corners: touching boxes overlap
overlaps(self_min, self_max, other_min, other_max) ==
    IF self_max.x < other_min.x \/ self_min.x > other_max.x THEN FALSE
    ELSE IF self_max.y < other_min.y \/ self_min.y > other_max.y THEN FALSE
    ELSE TRUE

\* the (position, radius) of the particles put into the grid: around the
\* origin, on negative coordinates, touching, apart
GridShapes ==
    { [position |-> Vec2(-500, -500), radius |-> 1000],
      [position |-> Vec2(1500, 0), radius |-> 1000],
      [position |-> Vec2(-3000, 200), radius |-> 500],
      [position |-> Vec2(1500, 2100), radius |-> 250] }

\* SpatialHashGrid(cell_size): cell sizes 0.5, 2.0 and 20.0
CellSizes == {500, 2000, 20000}

\* the particles inserted since the last clear()
Inserted == { last.inserted[k] : k \in 1..Len(last.inserted) }

GridInit ==
    \E shape \in [Handles -> GridShapes], size \in CellSizes,
       ids \in {Identity, Reversed(Identity)} :
        /\ heap = [h \in Handles |->
                      Particle(shape[h].position, ZeroVec, shape[h].radius,
                               SCALE, 300, 400, 0)]
        /\ particles = << >>
        /\ global_forces = << >>
        /\ local_forces = << >>
        /\ paused = FALSE
        /\ containers = << >>
        /\ constraints = << >>
        /\ cell_size = size
        /\ cells = << >>
        /\ addr = ids
        /\ twin = [heap |-> heap, particles |-> << >>, cells |-> << >>]
        /\ last = [op |-> "clear", inserted |-> << >>, pairs |-> << >>]
        /\ steps = 0
        /\ kills = 0
        /\ solver_attrs = NoAttr
        /\ controller = SimulationController
        /\ accumulator = 0

\* SpatialHashGrid.clear()
GridClear ==
    /\ cells # << >>
    /\ cells' = << >>
    /\ last' = [op |-> "clear", inserted |-> << >>, pairs |-> << >>]
    /\ UNCHANGED <<heap, particles, global_forces, local_forces, paused, containers,
                   constraints, cell_size, addr, twin, steps, kills, solver_attrs,
                   controller, accumulator>>

\* SpatialHashGrid.insert(particle), of a particle not inserted since clear()
GridInsert(h) ==
    /\ h \notin Inserted
    /\ cells' = insert(cells, h, heap[h], cell_size)
    /\ last' = [op |-> "insert", inserted |-> Append(last.inserted, h), pairs |-> << >>]
    /\ UNCHANGED <<heap, particles, global_forces, local_forces, paused, containers,
                   constraints, cell_size, addr, twin, steps, kills, solver_attrs,
                   controller, accumulator>>

\* SpatialHashGrid.compute_pairs()
GridComputePairs ==
    /\ last.op = "insert"
    /\ last' = [last EXCEPT !.op = "compute_pairs", !.pairs = compute_pairs(cells, addr)]
    /\ UNCHANGED <<heap, particles, global_forces, local_forces, paused, containers,
                   constraints, cell_size, cells, addr, twin, steps, kills, solver_attrs,
                   controller, accumulator>>

GridNext ==
    \/ GridClear
    \/ \E h \in Handles : GridInsert(h)
    \/ GridComputePairs

SpecGrid == GridInit /\ [][GridNext]_vars

\* ----------------------------------------- resolve_contact by itself -----

\* velocities along the axis the two particles lie on
Speeds == {-1500, -600, -300, 0, 300, 600, 1500}

Masses == {500, 1000, 2000}

Restitutions == {500, 1000}

\* centre distances of the overlapping pair (radius 1.0 each)
Distances == {1000, 1600}

\* the axis the pair lies on
Axes == {Vec2(SCALE, 0), Vec2(0, SCALE)}

ElasticInit ==
    \E va \in Speeds, vb \in Speeds, ma \in Masses, mb \in Masses,
       e \in Restitutions, d \in Distances, axis \in Axes :
        /\ heap = << WithAcceleration(
                        Particle(Vec2(5000, 5000), VecMul(axis, va), SCALE, ma, 0, e, 0)),
                     WithAcceleration(
                        Particle(VecAdd(Vec2(5000, 5000), VecMul(axis, d)),
                                 VecMul(axis, vb), SCALE, mb, 0, e, 0)) >>
        /\ particles = <<1, 2>>
        /\ global_forces = << >>
        /\ local_forces = << >>
        /\ paused = FALSE
        /\ containers = << >>
        /\ constraints = << >>
        /\ cell_size = SYSTEM_CELL_SIZE
        /\ cells = << >>
        /\ addr = Identity
        /\ twin = [heap |-> heap, particles |-> particles, cells |-> << >>]
        /\ last = [op |-> "none", prev_heap |-> heap, contacts |-> << >>]
        /\ steps = 0
        /\ kills = 0
        /\ solver_attrs = NoAttr
        /\ controller = SimulationController
        /\ accumulator = 0

\* contact = circle_circle(a, b); resolve_contact(contact)
Collide ==
    /\ \E contact \in {circle_circle(1, 2, heap[1], heap[2])} :
        /\ contact # None
        /\ heap' = resolve_contact(heap, contact[1])
        /\ last' = [op |-> "resolve_contact", prev_heap |-> heap, contacts |-> contact]
    /\ UNCHANGED <<particles, global_forces, local_forces, paused, containers,
                   constraints, cell_size, cells, addr, twin, steps, kills, solver_attrs,
                   controller, accumulator>>

ElasticNext == Collide

SpecElastic == ElasticInit /\ [][ElasticNext]_vars

\* ------------------------------------------------- construction -----

\* the masses Particle(...) is called with: negative, zero, small, infinite
NewMasses == {-2000, -1, 0, 1, 500, 1000, 3000, INF}

\* the cell sizes SpatialHashGrid(...) is called with
NewCellSizes == {-2000, -1, 0, 500, 2000, 20000}

\* nothing constructed yet
ConstructInit ==
    /\ heap = << >>
    /\ particles = << >>
    /\ global_forces = << >>
    /\ local_forces = << >>
    /\ paused = FALSE
    /\ containers = << >>
    /\ constraints = << >>
    /\ cell_size = 0
    /\ cells = << >>
    /\ addr = Identity
    /\ twin = [heap |-> << >>, particles |-> << >>, cells |-> << >>]
    /\ last = [op |-> "none", arg |-> 0, raised |-> FALSE, count |-> 0]
    /\ steps = 0
    /\ kills = 0
    /\ solver_attrs = NoAttr
    /\ controller = SimulationController
    /\ accumulator = 0

\* p = Particle(position, velocity, radius, mass): the object exists only if
\* __post_init__ returned
NewParticle(mass) ==
    /\ Len(heap) < MaxParticles
    /\ heap' = IF __post_init__(mass).raised THEN heap
               ELSE Append(heap, Particle(Vec2(5000, 5000), Vec2(1500, 0), SCALE, mass,
                                          300, 400, 0))
    /\ last' = [op |-> "Particle", arg |-> mass, raised |-> __post_init__(mass).raised,
                count |-> Len(heap)]
    /\ UNCHANGED <<particles, global_forces, local_forces, paused, containers,
                   constraints, cell_size, cells, addr, twin, steps, kills, solver_attrs,
                   controller, accumulator>>

\* grid = SpatialHashGrid(cell_size): the grid is replaced only if __init__
\* returned
NewGrid(size) ==
    /\ IF SpatialHashGrid(size).raised THEN UNCHANGED <<cell_size, cells>>
       ELSE /\ cell_size' = SpatialHashGrid(size).cell_size
            /\ cells' = SpatialHashGrid(size).cells
    /\ last' = [op |-> "SpatialHashGrid", arg |-> size,
                raised |-> SpatialHashGrid(size).raised, count |-> Len(heap)]
    /\ UNCHANGED <<heap, particles, global_forces, local_forces, paused, containers,
                   constraints, addr, twin, steps, kills, solver_attrs,
                   controller, accumulator>>

\* grid.insert(p) of a constructed particle into a constructed grid
GridInsertNew(h) ==
    /\ cell_size > 0
    /\ h \in 1..Len(heap)
    /\ \A k \in 1..Len(cells) : \A i \in 1..Len(cells[k].items) : cells[k].items[i] # h
    /\ cells' = insert(cells, h, heap[h], cell_size)
    /\ last' = [op |-> "insert", arg |-> h, raised |-> FALSE, count |-> Len(heap)]
    /\ UNCHANGED <<heap, particles, global_forces, local_forces, paused, containers,
                   constraints, cell_size, addr, twin, steps, kills, solver_attrs,
                   controller, accumulator>>

ConstructNext ==
    \/ \E mass \in NewMasses : NewParticle(mass)
    \/ \E size \in NewCellSizes : NewGrid(size)
    \/ \E h \in Handles : GridInsertNew(h)

SpecConstruct == ConstructInit /\ [][ConstructNext]_vars

\* ------------------------------------- the solver functions by themselves -----

MaxSolverCalls == 2

\* velocities of a and of b along the normal, and of a across it
NormalSpeedsA == {-300, 0, 60, 600, 1000, 1500}

NormalSpeedsB == {-500, 0}

TangentSpeedsA == {0, 400}

\* masses of a and b: equal, light and heavy, both light, one or both infinite
MassPairs == { <<1000, 1000>>, <<500, 2000>>, <<500, 500>>,
               <<INF, 1000>>, <<1000, INF>>, <<INF, INF>> }

\* radii and centre distance: penetrations of 0.005, 0.05, 0.4 and 5.5
Overlaps == { [ra |-> 1000, rb |-> 1005, d |-> 2000],
              [ra |-> 1000, rb |-> 1050, d |-> 2000],
              [ra |-> 1000, rb |-> 1000, d |-> 1600],
              [ra |-> 3000, rb |-> 3000, d |-> 500] }

\* a particle that went to sleep in integrate_particle (lines 82-91)
Asleep(p) ==
    [p EXCEPT !.sleeping = TRUE, !.sleep_timer = SLEEP_DELAY, !.velocity = ZeroVec]

\* what main_with_menu.main assigns to solver.PERCENT and
\* solver.MAX_CORRECTION_PER_ITERATION after building a scene
SceneAttrs(scene_name) ==
    IF scene_name = "buoyancy_scene"
    THEN [PERCENT |-> 4 * SCALE, MAX_CORRECTION_PER_ITERATION |-> 20000 * SCALE]
    ELSE [PERCENT |-> 200, MAX_CORRECTION_PER_ITERATION |-> 2 * SCALE]

SceneNames == {"rope_scene", "buoyancy_scene"}

\* two overlapping particles a = 1 and b = 2, or the particle a = 1 alone
\* overlapping the right wall of a rectangle container by as much
SolverInit ==
    \E van \in NormalSpeedsA, vbn \in NormalSpeedsB, vat \in TangentSpeedsA,
       m \in MassPairs, mu \in {0, 500}, e \in {400, 1000}, o \in Overlaps,
       sa \in BOOLEAN, sb \in BOOLEAN, aa \in BOOLEAN, ab \in BOOLEAN,
       wall \in BOOLEAN :
        /\ (sa \/ sb) => (aa /\ ab /\ mu = 500 /\ e = 400)
        /\ sa => (van = 0 /\ vat = 0)
        /\ sb => vbn = 0
        /\ ~(aa /\ ab) => (mu = 500 /\ e = 400 /\ m = <<1000, 1000>> /\ (aa \/ ab)
                            /\ o.d = 1600)
        /\ wall => (vbn = 0 /\ ~sb /\ ab)
        /\ heap = << [ (IF sa THEN Asleep(WithAcceleration(
                                     Particle(Vec2(5000, 5000), Vec2(van, vat), o.ra,
                                              m[1], mu, e, 0)))
                        ELSE WithAcceleration(
                                     Particle(Vec2(5000, 5000), Vec2(van, vat), o.ra,
                                              m[1], mu, e, 0)))
                       EXCEPT !.alive = aa ],
                     [ (IF sb THEN Asleep(WithAcceleration(
                                     Particle(Vec2(5000 + (IF wall THEN 20000 ELSE o.d), 5000),
                                              Vec2(vbn, 0), o.rb, m[2], mu, 800, 0)))
                        ELSE WithAcceleration(
                                     Particle(Vec2(5000 + (IF wall THEN 20000 ELSE o.d), 5000),
                                              Vec2(vbn, 0), o.rb, m[2], mu, 800, 0)))
                       EXCEPT !.alive = ab ] >>
        /\ particles = <<1, 2>>
        /\ global_forces = << >>
        /\ local_forces = << >>
        /\ paused = FALSE
        /\ containers = IF wall
                        THEN << RectangleContainer(0, 0, 5000 + o.d - o.rb, 10000) >>
                        ELSE << >>
        /\ constraints = << >>
        /\ cell_size = SYSTEM_CELL_SIZE
        /\ cells = << >>
        /\ addr = Identity
        /\ twin = [heap |-> << >>, particles |-> << >>, cells |-> << >>]
        /\ last = [op |-> "none", prev_heap |-> heap, contacts |-> << >>]
        /\ steps = 0
        /\ kills = 0
        /\ solver_attrs = NoAttr
        /\ controller = SimulationController
        /\ accumulator = 0

\* the contact of the pair, as step() collects it: circle_circle(a, b), or
\* container.generate_contacts(a)
PairContacts ==
    IF containers # << >> THEN generate_contacts(containers[1], 1, heap[1])
    ELSE circle_circle(1, 2, heap[1], heap[2])

\* resolve_contact(contact)
Resolve ==
    /\ steps < MaxSolverCalls
    /\ PairContacts # << >>
    /\ heap' = resolve_contact(heap, PairContacts[1])
    /\ last' = [op |-> "resolve_contact", prev_heap |-> heap, contacts |-> PairContacts]
    /\ steps' = steps + 1
    /\ UNCHANGED <<particles, global_forces, local_forces, paused, containers,
                   constraints, cell_size, cells, addr, twin, kills, solver_attrs,
                   controller, accumulator>>

\* positional_correction(contact)
Correct ==
    /\ steps < MaxSolverCalls
    /\ PairContacts # << >>
    /\ heap' = positional_correction(heap, PairContacts[1])
    /\ last' = [op |-> "positional_correction", prev_heap |-> heap,
                contacts |-> PairContacts]
    /\ steps' = steps + 1
    /\ UNCHANGED <<particles, global_forces, local_forces, paused, containers,
                   constraints, cell_size, cells, addr, twin, kills, solver_attrs,
                   controller, accumulator>>

\* main_with_menu.main, lines 141-146: solver.PERCENT = ... and
\* solver.MAX_CORRECTION_PER_ITERATION = ... after a scene is built
Configure(scene_name) ==
    /\ solver_attrs' = <<SceneAttrs(scene_name)>>
    /\ last' = [op |-> "configure", prev_heap |-> heap, contacts |-> << >>]
    /\ UNCHANGED <<heap, particles, global_forces, local_forces, paused, containers,
                   constraints, cell_size, cells, addr, twin, steps, kills,
                   controller, accumulator>>

SolverNext ==
    \/ Resolve
    \/ Correct
    \/ \E scene_name \in SceneNames : Configure(scene_name)

SpecSolver == SolverInit /\ [][SolverNext]_vars

\* ----------------------------------------- integrate_particle by itself -----

\* the velocity, the accumulated force and the acceleration attribute of the
\* particle integrate_particle is called on
IntegrateVelocities == {ZeroVec, Vec2(30, 0), Vec2(1500, -500)}

IntegrateForces == {ZeroVec, Vec2(0, 200), Vec2(1000, 0)}

IntegrateAccelerations == {NoAttr, <<ZeroVec>>, <<Vec2(0, 200)>>, <<Vec2(-400, 0)>>}

IntegrateInit ==
    \E v \in IntegrateVelocities, f \in IntegrateForces, acc \in IntegrateAccelerations,
       mass \in {500, 1000, INF}, damping \in {0, 500}, is_alive \in BOOLEAN,
       is_sleeping \in BOOLEAN, timer \in {0, 200} :
        /\ is_sleeping => (v = ZeroVec /\ f = ZeroVec /\ acc = <<ZeroVec>>
                             /\ timer = 200 /\ mass # INF)
        /\ heap = << [Particle(Vec2(5000, 5000), v, SCALE, mass, 300, 400, damping)
                        EXCEPT !.force = f, !.acceleration = acc, !.alive = is_alive,
                               !.sleeping = is_sleeping,
                               !.sleep_timer = IF is_sleeping THEN SLEEP_DELAY ELSE timer] >>
        /\ particles = <<1>>
        /\ global_forces = << Gravity(Vec2(0, 200)) >>
        /\ local_forces = << >>
        /\ paused = FALSE
        /\ containers = << >>
        /\ constraints = << >>
        /\ cell_size = SYSTEM_CELL_SIZE
        /\ cells = << >>
        /\ addr = Identity
        /\ twin = [heap |-> << >>, particles |-> << >>, cells |-> << >>]
        /\ last = [op |-> "none", prev_heap |-> heap, raised |-> FALSE, dt |-> 0]
        /\ steps = 0
        /\ kills = 0
        /\ solver_attrs = NoAttr
        /\ controller = SimulationController
        /\ accumulator = 0

\* force.apply(p, dt) of the global forces, as in the force phase of step()
Accumulate ==
    /\ steps < MaxSteps
    /\ heap[1].alive /\ ~heap[1].sleeping
    /\ heap' = << ApplyForces(global_forces, heap[1], 0) >>
    /\ last' = [op |-> "apply", prev_heap |-> heap, raised |-> FALSE, dt |-> 0]
    /\ steps' = steps + 1
    /\ UNCHANGED <<particles, global_forces, local_forces, paused, containers,
                   constraints, cell_size, cells, addr, twin, kills, solver_attrs,
                   controller, accumulator>>

\* integrate_particle(p, dt)
Integrate(dt) ==
    /\ steps < MaxSteps
    /\ heap' = << integrate_particle(heap[1], dt).p >>
    /\ last' = [op |-> "integrate_particle", prev_heap |-> heap,
                raised |-> integrate_particle(heap[1], dt).raised, dt |-> dt]
    /\ steps' = steps + 1
    /\ UNCHANGED <<particles, global_forces, local_forces, paused, containers,
                   constraints, cell_size, cells, addr, twin, kills, solver_attrs,
                   controller, accumulator>>

IntegrateNext ==
    \/ Accumulate
    \/ \E dt \in DTs : Integrate(dt)

SpecIntegrate == IntegrateInit /\ [][IntegrateNext]_vars

\* --------------------------------------- contact generation by itself -----

\* centres of the two particles: the container centre, points on the axes
\* through it, on a 3-4-5 triangle from it and in two corners of the box
ContactPositions ==
    {Vec2(5000, 5000), Vec2(7000, 5000), Vec2(6500, 5000), Vec2(5000, 9000),
     Vec2(5000, 9500), Vec2(8000, 9000), Vec2(500, 500), Vec2(9800, 9500)}

ContactsInit ==
    \E pos_a \in ContactPositions, pos_b \in ContactPositions,
       radius_a \in {500, 1000}, radius_b \in {500, 1000},
       mass_a \in {1000, INF}, mass_b \in {1000, INF}, container_radius \in {400, 5000} :
        /\ heap = << Particle(pos_a, ZeroVec, radius_a, mass_a, 300, 400, 0),
                     Particle(pos_b, ZeroVec, radius_b, mass_b, 300, 400, 0) >>
        /\ particles = <<1, 2>>
        /\ global_forces = << >>
        /\ local_forces = << >>
        /\ paused = FALSE
        /\ containers = << RectangleContainer(0, 0, 10000, 10000),
                           CircleContainer(Vec2(5000, 5000), container_radius) >>
        /\ constraints = << >>
        /\ cell_size = SYSTEM_CELL_SIZE
        /\ cells = << >>
        /\ addr = Identity
        /\ twin = [heap |-> << >>, particles |-> << >>, cells |-> << >>]
        /\ last = [op |-> "none", h |-> 0, contacts |-> << >>]
        /\ steps = 0
        /\ kills = 0
        /\ solver_attrs = NoAttr
        /\ controller = SimulationController
        /\ accumulator = 0

\* circle_circle(a, b) on the two particles
CircleCircle ==
    /\ last' = [op |-> "circle_circle", h |-> 1,
                contacts |-> circle_circle(1, 2, heap[1], heap[2])]
    /\ UNCHANGED <<heap, particles, global_forces, local_forces, paused, containers,
                   constraints, cell_size, cells, addr, twin, steps, kills, solver_attrs,
                   controller, accumulator>>

\* RectangleContainer.generate_contacts(p)
RectangleGenerate(h) ==
    /\ last' = [op |-> "RectangleContainer.generate_contacts", h |-> h,
                contacts |-> generate_contacts(containers[1], h, heap[h])]
    /\ UNCHANGED <<heap, particles, global_forces, local_forces, paused, containers,
                   constraints, cell_size, cells, addr, twin, steps, kills, solver_attrs,
                   controller, accumulator>>

\* CircleContainer.generate_contacts(p)
CircleGenerate(h) ==
    /\ last' = [op |-> "CircleContainer.generate_contacts", h |-> h,
                contacts |-> generate_contacts(containers[2], h, heap[h])]
    /\ UNCHANGED <<heap, particles, global_forces, local_forces, paused, containers,
                   constraints, cell_size, cells, addr, twin, steps, kills, solver_attrs,
                   controller, accumulator>>

ContactsNext ==
    \/ CircleCircle
    \/ \E h \in {1, 2} : RectangleGenerate(h)
    \/ \E h \in {1, 2} : CircleGenerate(h)

SpecContacts == ContactsInit /\ [][ContactsNext]_vars

\* ------------------------------------ DistanceConstraint.solve by itself -----

\* where particle_b lies from particle_a: on it, on an axis through it or on
\* a 3-4-5 triangle from it
ConstraintOffsets == {ZeroVec, Vec2(1000, 0), Vec2(4000, 0), Vec2(0, 2500), Vec2(3000, 4000)}

ConstraintInit ==
    \E offset \in ConstraintOffsets, distance \in {1000, 2000}, stiffness \in {500, SCALE},
       mass_a \in {250, 1000, INF}, mass_b \in {250, 1000, INF},
       alive_a \in BOOLEAN, alive_b \in BOOLEAN :
        /\ heap = << [Particle(Vec2(5000, 5000), ZeroVec, 500, mass_a, 300, 400, 0)
                        EXCEPT !.alive = alive_a],
                     [Particle(VecAdd(Vec2(5000, 5000), offset), Vec2(100, -200), 500,
                               mass_b, 300, 400, 0)
                        EXCEPT !.alive = alive_b] >>
        /\ particles = <<1, 2>>
        /\ global_forces = << >>
        /\ local_forces = << >>
        /\ paused = FALSE
        /\ containers = << >>
        /\ constraints = << DistanceConstraint(1, 2, distance, stiffness) >>
        /\ cell_size = SYSTEM_CELL_SIZE
        /\ cells = << >>
        /\ addr = Identity
        /\ twin = [heap |-> << >>, particles |-> << >>, cells |-> << >>]
        /\ last = [op |-> "none", dt |-> 0, prev_heap |-> heap]
        /\ steps = 0
        /\ kills = 0
        /\ solver_attrs = NoAttr
        /\ controller = SimulationController
        /\ accumulator = 0

\* constraint.solve(dt)
Solve(dt) ==
    /\ steps < MaxSteps
    /\ heap' = solve(heap, constraints[1], dt)
    /\ last' = [op |-> "solve", dt |-> dt, prev_heap |-> heap]
    /\ steps' = steps + 1
    /\ UNCHANGED <<particles, global_forces, local_forces, paused, containers,
                   constraints, cell_size, cells, addr, twin, kills, solver_attrs,
                   controller, accumulator>>

ConstraintNext == \E dt \in DTs \cup {0} : Solve(dt)

SpecConstraint == ConstraintInit /\ [][ConstraintNext]_vars

\* --------------------------------- the controller and the main loop -----

\* FIXED_DT in the unit of the accumulator
FIXED_DT == 2

\* K_SPACE, K_s and K_r of the event loop
Keys == {"space", "s", "r"}

\* pygame.event.get(): the keys pressed since the last frame
EventBatches ==
    {<< >>} \cup {<<k>> : k \in Keys} \cup {<<j, k>> : j \in Keys, k \in Keys}

\* what the user has asked for and not yet got: step_open, a single step
\* requested while paused and not yet granted; reset_open, a reset requested
\* and not yet seen by should_reset; awaiting, a reset requested and since
\* then neither an unpause nor a request for a single step
NothingAsked == [step_open |-> FALSE, reset_open |-> FALSE, awaiting |-> FALSE]

\* main, lines 57-65: one KEYDOWN event on the controller c, with the record
\* g of what the user has asked for
KeyDown(k, st) ==
    IF k = "space"
    THEN [c |-> toggle_pause(st.c),
          g |-> [st.g EXCEPT !.awaiting = @ /\ toggle_pause(st.c).paused]]
    ELSE IF k = "s"
    THEN [c |-> request_step(st.c),
          g |-> [st.g EXCEPT !.step_open = @ \/ st.c.paused, !.awaiting = FALSE]]
    ELSE [c |-> request_reset(st.c),
          g |-> [st.g EXCEPT !.reset_open = TRUE, !.awaiting = TRUE]]

\* main, lines 54-73: the event loop
RECURSIVE HandleEvents(_, _)
HandleEvents(events, st) ==
    IF Evaluated(st) /\ events # << >>
    THEN HandleEvents(Tail(events), KeyDown(Head(events), st))
    ELSE st

\* main, lines 81-94: while accumulator >= FIXED_DT; calls counts the calls of
\* psystem.step, unasked says that one was made while a reset was awaiting
\* the user
RECURSIVE StepLoop(_)
StepLoop(st) ==
    IF Evaluated(st) /\ st.acc >= FIXED_DT
    THEN StepLoop([c |-> should_step(st.c).self,
                   g |-> [st.g EXCEPT !.step_open =
                                           @ /\ ~(st.c.paused /\ should_step(st.c).ret)],
                   acc |-> st.acc - FIXED_DT,
                   calls |-> st.calls + (IF should_step(st.c).ret THEN 1 ELSE 0),
                   unasked |-> st.unasked \/ (should_step(st.c).ret /\ st.g.awaiting)])
    ELSE st

\* main, lines 75-94, after the events left the controller and the record of
\* what was asked as in st: should_reset, scene.build, the stepping loop
AfterEvents(st, acc) ==
    StepLoop([c |-> should_reset(st.c).self,
              g |-> [st.g EXCEPT !.reset_open = @ /\ ~should_reset(st.c).ret],
              acc |-> IF should_reset(st.c).ret THEN 0 ELSE acc,
              calls |-> 0, unasked |-> FALSE])

NoCall ==
    [op |-> "none", ret |-> FALSE, prev |-> SimulationController,
     before |-> NothingAsked, asked |-> NothingAsked, seen |-> NothingAsked,
     rebuilt |-> FALSE, calls |-> 0, unasked |-> FALSE]

ControllerInit ==
    /\ heap = << >>
    /\ particles = << >>
    /\ global_forces = << >>
    /\ local_forces = << >>
    /\ paused = FALSE
    /\ containers = << >>
    /\ constraints = << >>
    /\ cell_size = SYSTEM_CELL_SIZE
    /\ cells = << >>
    /\ addr = Identity
    /\ twin = [heap |-> << >>, particles |-> << >>, cells |-> << >>]
    /\ last = NoCall
    /\ steps = 0
    /\ kills = 0
    /\ solver_attrs = NoAttr
    /\ controller = SimulationController
    /\ accumulator = 0

\* controller.toggle_pause(), request_step() or request_reset(), as a key or
\* a button of the simulation UI calls it
Call(k) ==
    /\ controller' = KeyDown(k, [c |-> controller, g |-> last.asked]).c
    /\ last' = [NoCall EXCEPT !.op = k, !.prev = controller, !.before = last.asked,
                              !.asked = KeyDown(k, [c |-> controller, g |-> last.asked]).g]
    /\ UNCHANGED <<heap, particles, global_forces, local_forces, paused, containers,
                   constraints, cell_size, cells, addr, twin, steps, kills, solver_attrs,
                   accumulator>>

\* controller.should_step()
ShouldStep ==
    /\ controller' = should_step(controller).self
    /\ last' = [NoCall EXCEPT !.op = "should_step", !.ret = should_step(controller).ret,
                              !.prev = controller, !.before = last.asked,
                              !.asked = [last.asked EXCEPT !.step_open =
                                            @ /\ ~(controller.paused
                                                     /\ should_step(controller).ret)]]
    /\ UNCHANGED <<heap, particles, global_forces, local_forces, paused, containers,
                   constraints, cell_size, cells, addr, twin, steps, kills, solver_attrs,
                   accumulator>>

\* controller.should_reset()
ShouldReset ==
    /\ controller' = should_reset(controller).self
    /\ last' = [NoCall EXCEPT !.op = "should_reset", !.ret = should_reset(controller).ret,
                              !.prev = controller, !.before = last.asked,
                              !.asked = [last.asked EXCEPT !.reset_open =
                                            @ /\ ~should_reset(controller).ret]]
    /\ UNCHANGED <<heap, particles, global_forces, local_forces, paused, containers,
                   constraints, cell_size, cells, addr, twin, steps, kills, solver_attrs,
                   accumulator>>

\* one round of the main loop: clock.tick, the events, the reset, the stepping
Frame(events, frame_dt) ==
    /\ controller' =
           AfterEvents(HandleEvents(events, [c |-> controller, g |-> last.asked]),
                       accumulator + frame_dt).c
    /\ accumulator' =
           AfterEvents(HandleEvents(events, [c |-> controller, g |-> last.asked]),
                       accumulator + frame_dt).acc
    /\ last' =
           [NoCall EXCEPT
              !.op = "frame", !.prev = controller, !.before = last.asked,
              !.seen = HandleEvents(events, [c |-> controller, g |-> last.asked]).g,
              !.asked = AfterEvents(HandleEvents(events, [c |-> controller, g |-> last.asked]),
                                    accumulator + frame_dt).g,
              !.rebuilt = should_reset(HandleEvents(events, [c |-> controller,
                                                               g |-> last.asked]).c).ret,
              !.calls = AfterEvents(HandleEvents(events, [c |-> controller, g |-> last.asked]),
                                    accumulator + frame_dt).calls,
              !.unasked = AfterEvents(HandleEvents(events, [c |-> controller,
                                                             g |-> last.asked]),
                                      accumulator + frame_dt).unasked]
    /\ UNCHANGED <<heap, particles, global_forces, local_forces, paused, containers,
                   constraints, cell_size, cells, addr, twin, steps, kills, solver_attrs>>

ControllerNext ==
    \/ \E k \in Keys : Call(k)
    \/ ShouldStep
    \/ ShouldReset
    \* clock.tick(144) / 1000.0: under one FIXED_DT, one FIXED_DT, over two
    \/ \E events \in EventBatches, frame_dt \in {1, 2, 5} : Frame(events, frame_dt)

SpecController == ControllerInit /\ [][ControllerNext]_vars

\* ----------------------------------------------------------- claims -----

\* the last operation was a step() on an unpaused system
Stepped == last.op = "step" /\ last.outcome # "paused"

\* ... and it ran to its end
StepReturned == last.op = "step" /\ last.outcome = "returned"

\* the handles of a list of particles
HandlesOf(ps) == { ps[k] : k \in 1..Len(ps) }

\* the contacts of the last step that name the particle h
ContactsOf(h) ==
    { k \in 1..Len(last.contacts) : last.contacts[k].a = h \/ last.contacts[k].b = h }

\* the cells of the grid that hold the particle h
CellsOf(grid, h) ==
    { k \in 1..Len(grid) : \E i \in 1..Len(grid[k].items) : grid[k].items[i] = h }

\* C1: a particle with inv_mass = 0 comes out of every step() with exactly
\* the position and the velocity it went in with, whatever forces,
\* containers, constraints and overlapping dynamic particles there are.
C1_StaticImmovable ==
    last.op = "step" =>
        \A h \in 1..Len(last.prev_heap) :
            last.prev_heap[h].inv_mass = 0 =>
                /\ heap[h].inv_mass = 0
                /\ heap[h].position = last.prev_heap[h].position
                /\ heap[h].velocity = last.prev_heap[h].velocity

\* a second step that ran to its end, with forces and a container present
\* and a static particle that is in a contact and on a constraint
C1_Witness ==
    /\ StepReturned
    /\ steps >= 2
    /\ global_forces # << >> /\ local_forces # << >> /\ containers # << >>
    /\ \E h \in 1..Len(heap) :
        /\ heap[h].inv_mass = 0
        /\ ContactsOf(h) # {}
        /\ \E k \in 1..Len(constraints) :
              constraints[k].particle_a = h \/ constraints[k].particle_b = h

C3_SleepRule ==
    Stepped =>
        \A h \in HandlesOf(last.prev_particles) :
            LET p == last.prev_heap[h]
                q == last.integrated[h]
            IN  (p.alive /\ ~p.sleeping /\ p.inv_mass > 0) =>
                    IF q.sleeping
                    THEN /\ q.sleep_timer = p.sleep_timer + last.dt
                         /\ q.sleep_timer >= SLEEP_DELAY
                         /\ q.velocity = ZeroVec
                         /\ q.force = ZeroVec
                         /\ q.acceleration = <<ZeroVec>>
                    ELSE IF length_squared(q.velocity) < Sq(q.sleep_threshold)
                    THEN /\ q.sleep_timer = p.sleep_timer + last.dt
                         /\ q.sleep_timer < SLEEP_DELAY
                    ELSE q.sleep_timer = 0

\* C4: after every step() on an unpaused system the particle list is the
\* list before the step without the particles that are not alive, in the
\* same order.
C4_ListIsAlive ==
    Stepped =>
        LET Alive(h) == heap[h].alive
        IN  particles = SelectSeq(last.prev_particles, Alive)

\* C5: compute_pairs(), on distinct particles inserted once each after
\* clear(), returns no unordered pair twice and no pair of a particle with
\* itself.
C5_PairsUnique ==
    last.op = "compute_pairs" =>
        /\ \A k \in 1..Len(last.pairs) : last.pairs[k][1] # last.pairs[k][2]
        /\ \A k, l \in 1..Len(last.pairs) :
              k # l => {last.pairs[k][1], last.pairs[k][2]}
                           # {last.pairs[l][1], last.pairs[l][2]}

\* compute_pairs() has returned a pair of particles that share several cells
C5_Witness ==
    /\ last.op = "compute_pairs"
    /\ \E k \in 1..Len(last.pairs) :
          Cardinality(CellsOf(cells, last.pairs[k][1])
                          \cap CellsOf(cells, last.pairs[k][2])) >= 2

\* the bounding box position -+ radius of the particle h
BoxMin(h) == Vec2(heap[h].position.x - heap[h].radius, heap[h].position.y - heap[h].radius)

BoxMax(h) == Vec2(heap[h].position.x + heap[h].radius, heap[h].position.y + heap[h].radius)

\* C6: compute_pairs() returns, in one order or the other, every pair of
\* inserted particles whose bounding boxes position -+ radius overlap.
C6_PairsComplete ==
    last.op = "compute_pairs" =>
        \A a, b \in Inserted :
            (a # b /\ overlaps(BoxMin(a), BoxMax(a), BoxMin(b), BoxMax(b))) =>
                \E k \in 1..Len(last.pairs) :
                    last.pairs[k] = <<a, b>> \/ last.pairs[k] = <<b, a>>

\* compute_pairs() on a grid of cells smaller than the particles, holding a
\* particle on negative coordinates whose box overlaps another's
C6_Witness ==
    /\ last.op = "compute_pairs"
    /\ cell_size < SCALE
    /\ \E a, b \in Inserted :
        /\ a # b
        /\ BoxMin(a).x < 0 /\ BoxMin(a).y < 0
        /\ Cardinality(CellsOf(cells, a)) > 1
        /\ overlaps(BoxMin(a), BoxMax(a), BoxMin(b), BoxMax(b))

\* what a step() with n contacts and m constraints does, in order
ExpectedLog(n, m) ==
    <<Ev("forces", 0, 0), Ev("integrate", 0, 0), Ev("broadphase", 0, 0),
      Ev("narrowphase", 0, 0), Ev("containers", 0, 0)>>
    \o [k \in 1..(solver_iterations * (n + m)) |->
            LET iter == ((k - 1) \div (n + m)) + 1
                i == ((k - 1) % (n + m)) + 1
            IN  IF i <= n THEN Ev("resolve_contact", i, iter)
                ELSE Ev("solve", i - n, iter)]
    \o [k \in 1..n |-> Ev("positional_correction", k, 0)]
    \o <<Ev("remove_dead", 0, 0)>>

\* C7: every step() on an unpaused system applies forces, integrates,
\* rebuilds the broadphase, runs the narrowphase, generates container
\* contacts, runs solver_iterations iterations (each resolving every contact
\* and then solving every constraint), corrects every contact once and
\* removes the dead particles, in this order.
C7_PhaseOrder ==
    Stepped =>
        last.log = ExpectedLog(Len(last.contacts), Len(constraints))

C9_Deterministic ==
    /\ twin.heap = heap
    /\ twin.particles = particles
    /\ twin.cells = cells

\* a second step that ran to its end and resolved a contact between two
\* particles that share several cells, so that the pair was met again and
\* skipped by its id key
C9_Witness ==
    /\ StepReturned
    /\ steps >= 2
    /\ \E k \in 1..Len(last.contacts) :
        /\ last.contacts[k].b # 0
        /\ Cardinality(CellsOf(cells, last.contacts[k].a)
                           \cap CellsOf(cells, last.contacts[k].b)) >= 2

\* the case of claim C10: resolve_contact was called on two alive particles
\* of equal mass, restitution 1.0 and friction 0 that approached each other
\* along the contact normal
HeadOnElastic ==
    /\ last.op = "resolve_contact"
    /\ LET a == last.prev_heap[1]
           b == last.prev_heap[2]
           n == last.contacts[1].normal
       IN  /\ a.alive /\ b.alive
           /\ a.mass = b.mass
           /\ a.restitution = SCALE /\ b.restitution = SCALE
           /\ a.friction = 0 /\ b.friction = 0
           /\ VecMul(n, dot(a.velocity, n)) = a.velocity
           /\ VecMul(n, dot(b.velocity, n)) = b.velocity
           /\ dot(VecSub(b.velocity, a.velocity), n) < 0

\* the speed at which the two particles closed in on each other
ClosingSpeed ==
    -dot(VecSub(last.prev_heap[2].velocity, last.prev_heap[1].velocity),
         last.contacts[1].normal)

\* each particle has the velocity the other one had
Exchanged ==
    /\ heap[1].velocity = last.prev_heap[2].velocity
    /\ heap[2].velocity = last.prev_heap[1].velocity

\* C10, as stated: at any closing speed, one resolve_contact call exchanges
\* the velocities of two equal-mass particles approaching head-on with
\* restitution 1.0 and zero friction.
C10_ExchangeAtAnySpeed == HeadOnElastic => Exchanged

\* C10, amended: the velocities are exchanged if the closing speed is at
\* least the resting threshold of 1.0.
C10_ExchangeAboveResting ==
    (HeadOnElastic /\ ClosingSpeed >= RESTING_VELOCITY_THRESHOLD) => Exchanged

\* a head-on elastic collision above the resting threshold that changed
\* both velocities
C10_Witness ==
    /\ HeadOnElastic
    /\ ClosingSpeed >= RESTING_VELOCITY_THRESHOLD
    /\ heap[1].velocity # last.prev_heap[1].velocity
    /\ heap[2].velocity # last.prev_heap[2].velocity
    /\ last.prev_heap[1].velocity # ZeroVec
    /\ last.prev_heap[2].velocity # ZeroVec

\* C11: a step() over particles as constructed (alive, awake, of finite
\* mass, never given an acceleration by anyone) completes: no
\* integrate_particle call in it raises.
C11_FreshParticleIntegrates ==
    (last.op = "step"
        /\ \E h \in HandlesOf(last.prev_particles) :
              /\ last.prev_heap[h].alive /\ ~last.prev_heap[h].sleeping
              /\ last.prev_heap[h].inv_mass > 0
              /\ last.prev_heap[h].acceleration = NoAttr)
    => last.outcome # "raised"

\* C12: Particle(...) with a mass <= 0 raises and leaves no particle; with a
\* mass > 0 it returns a particle of that mass whose inv_mass is 1 / mass, to
\* the last digit kept, and 0 for an infinite mass.
C12_MassPositivity ==
    last.op = "Particle" =>
        IF last.arg <= 0
        THEN last.raised /\ Len(heap) = last.count
        ELSE /\ ~last.raised
             /\ Len(heap) = last.count + 1
             /\ heap[Len(heap)].mass = last.arg
             /\ heap[Len(heap)].inv_mass * last.arg <= SCALE * SCALE
             /\ (heap[Len(heap)].inv_mass + 1) * last.arg > SCALE * SCALE
             /\ (last.arg = INF => heap[Len(heap)].inv_mass = 0)

\* a construction with a negative mass has failed after one with an infinite
\* mass and one with a mass below 1 had succeeded
C12_Witness ==
    /\ last.op = "Particle" /\ last.raised /\ last.arg < 0
    /\ Len(heap) = 2
    /\ \E h \in 1..2 : heap[h].mass = INF /\ heap[h].inv_mass = 0
    /\ \E h \in 1..2 : heap[h].mass < SCALE /\ heap[h].inv_mass > SCALE

\* C13: SpatialHashGrid(cell_size) raises if cell_size <= 0 and leaves the
\* grid there was; every cell_size > 0 gives an empty grid of that cell size.
C13_CellSizePositivity ==
    last.op = "SpatialHashGrid" =>
        IF last.arg <= 0
        THEN last.raised
        ELSE ~last.raised /\ cell_size = last.arg /\ cells = << >>

\* a construction with a negative cell size has failed, after a grid of a
\* positive cell size had been built and filled
C13_Witness ==
    /\ last.op = "SpatialHashGrid" /\ last.raised /\ last.arg < 0
    /\ cell_size > 0
    /\ cells # << >>

\* C14: a step() called right after clear() raises nothing and leaves the
\* particle list empty, whatever forces and containers the system holds and
\* however often clear() and step() have been called before.
C14_ClearThenStep ==
    (last.op = "step" /\ last.after = "clear") =>
        /\ last.outcome # "raised"
        /\ last.prev_particles = << >>
        /\ particles = << >>

\* an unpaused step() ran to its end right after a clear() that emptied a
\* list of particles, in a system with forces and a container, after an
\* earlier step()
C14_Witness ==
    /\ last.op = "step" /\ last.after = "clear"
    /\ last.outcome = "returned"
    /\ steps >= 2
    /\ Len(heap) > 0
    /\ global_forces # << >> /\ containers # << >>

\* the contact the last solver call was made on, and its two bodies before
\* the call
TheContact == last.contacts[1]

BodyA == Body(last.prev_heap, TheContact.a)

BodyB == Body(last.prev_heap, TheContact.b)

\* the relative velocity of the two bodies of the contact in a heap, along
\* the contact normal and across it
NormalVelocity(hp) ==
    dot(VecSub(Body(hp, TheContact.b).velocity, Body(hp, TheContact.a).velocity),
        TheContact.normal)

TangentVelocity(hp) ==
    VecSub(VecSub(Body(hp, TheContact.b).velocity, Body(hp, TheContact.a).velocity),
           VecMul(TheContact.normal, NormalVelocity(hp)))

\* the contact was significant when resolve_contact was called
Significant ==
    \/ Abs(NormalVelocity(last.prev_heap)) > WAKE_THRESHOLD_VELOCITY
    \/ TheContact.penetration > WAKE_THRESHOLD_PENETRATION

\* resolve_contact was called on two alive bodies, not both of zero inverse
\* mass, that were not separating
Approaching ==
    /\ last.op = "resolve_contact"
    /\ BodyA.alive /\ BodyB.alive
    /\ ~(BodyA.inv_mass = 0 /\ BodyB.inv_mass = 0)
    /\ NormalVelocity(last.prev_heap) <= 0

\* C15: resolve_contact wakes a sleeping particle exactly when the contact is
\* between alive bodies that approach each other, is significant by the
\* velocities and the penetration before any impulse, and the particle has
\* inv_mass > 0; it then sets the particle's sleep_timer to 0. A contact that
\* is not significant leaves a sleeping particle asleep.
C15_WakeOnlyIfSignificant ==
    last.op = "resolve_contact" =>
        \A h \in {TheContact.a, TheContact.b} \ {0} :
            last.prev_heap[h].sleeping =>
                IF Approaching /\ Significant /\ last.prev_heap[h].inv_mass > 0
                THEN ~heap[h].sleeping /\ heap[h].sleep_timer = 0
                ELSE heap[h].sleeping
                        /\ heap[h].sleep_timer = last.prev_heap[h].sleep_timer

\* a sleeping particle was woken by a contact that was significant by its
\* closing speed alone, a speed the impulse then took away
C15_Witness ==
    /\ Approaching
    /\ TheContact.penetration <= WAKE_THRESHOLD_PENETRATION
    /\ Abs(NormalVelocity(heap)) <= WAKE_THRESHOLD_VELOCITY
    /\ \E h \in {TheContact.a, TheContact.b} \ {0} :
          /\ last.prev_heap[h].sleeping /\ last.prev_heap[h].sleep_timer > 0
          /\ ~heap[h].sleeping

\* C16: resolve_contact changes nothing if one of the bodies is not alive,
\* if both have zero inverse mass, or if the bodies are separating.
C16_EarlyExits ==
    (last.op = "resolve_contact"
        /\ \/ ~BodyA.alive \/ ~BodyB.alive
           \/ (BodyA.inv_mass = 0 /\ BodyB.inv_mass = 0)
           \/ NormalVelocity(last.prev_heap) > 0)
    => heap = last.prev_heap

\* resolve_contact was called on two alive particles, one of them moving
\* across the normal, that overlap by more than the wake threshold and are
\* separating
C16_Witness ==
    /\ last.op = "resolve_contact"
    /\ BodyA.alive /\ BodyB.alive
    /\ BodyA.inv_mass > 0 /\ BodyB.inv_mass > 0
    /\ NormalVelocity(last.prev_heap) > 0
    /\ TangentVelocity(last.prev_heap) # ZeroVec
    /\ TheContact.penetration > WAKE_THRESHOLD_PENETRATION
    /\ heap = last.prev_heap

\* the rounding of the last digit kept, in the impulse and in its product
\* with each inverse mass
RoundingTolerance == 2

\* the restitution resolve_contact uses: the smaller one, 0 below the
\* resting threshold
Restitution ==
    IF Abs(NormalVelocity(last.prev_heap)) >= RESTING_VELOCITY_THRESHOLD
    THEN Min(BodyA.restitution, BodyB.restitution)
    ELSE 0

\* the contact normal has length 1 in the digits kept, as the quotient
\* delta / distance of circle_circle has in floats
UnitNormal == length_squared(TheContact.normal) = Sq(SCALE)

\* C17: after resolve_contact on approaching bodies with relative normal
\* velocity vn, the relative normal velocity is -e * vn, e the smaller
\* restitution if |vn| >= 1.0 and 0 otherwise, friction included.
C17_Restitution ==
    (Approaching /\ UnitNormal) =>
        Abs(NormalVelocity(heap) + Mul(Restitution, NormalVelocity(last.prev_heap)))
            <= RoundingTolerance

\* a bounce at exactly the resting threshold, off a body of the smaller
\* restitution, in which friction changed the velocity across the normal
C17_Witness ==
    /\ Approaching
    /\ NormalVelocity(last.prev_heap) = -RESTING_VELOCITY_THRESHOLD
    /\ Restitution > 0 /\ Restitution < BodyB.restitution
    /\ NormalVelocity(heap) > 0
    /\ TangentVelocity(heap) # TangentVelocity(last.prev_heap)

\* C18: resolve_contact leaves the relative velocity across the normal as it
\* was if that velocity is negligible, and also if the closing speed is below
\* the resting threshold.
C18_FrictionSuppressed ==
    (Approaching
        /\ \/ length_squared(TangentVelocity(last.prev_heap)) < Sq(EPSILON)
           \/ Abs(NormalVelocity(last.prev_heap)) < RESTING_VELOCITY_THRESHOLD)
    => TangentVelocity(heap) = TangentVelocity(last.prev_heap)

\* how far positional_correction moved the particle h
Displacement(h) ==
    Max(Abs(heap[h].position.x - last.prev_heap[h].position.x),
        Abs(heap[h].position.y - last.prev_heap[h].position.y))

\* positional_correction moved nothing
NothingDisplaced == heap = last.prev_heap

\* C19, as stated: positional_correction displaces no particle by more than
\* 2.0, whatever the penetration and the masses, and displaces nothing if
\* both inverse masses are zero or the penetration is at most the slop.
C19_DisplacementCapped ==
    last.op = "positional_correction" =>
        /\ \A h \in {1, 2} : Displacement(h) <= MAX_CORRECTION_PER_ITERATION
        /\ ((BodyA.inv_mass = 0 /\ BodyB.inv_mass = 0) \/ TheContact.penetration <= SLOP)
               => NothingDisplaced

\* C19, amended: the correction is limited to 2.0 and a particle is displaced
\* by the correction times its inverse mass, so by at most 2.0 * inv_mass;
\* nothing is displaced if both inverse masses are zero or the penetration is
\* at most the slop.
C19_CorrectionCapped ==
    last.op = "positional_correction" =>
        /\ \A h \in {1, 2} :
              Displacement(h) <= Mul(MAX_CORRECTION_PER_ITERATION, last.prev_heap[h].inv_mass)
        /\ ((BodyA.inv_mass = 0 /\ BodyB.inv_mass = 0) \/ TheContact.penetration <= SLOP)
               => NothingDisplaced

\* a penetration of 5.5 between a particle of mass 1 and an immovable body,
\* corrected by exactly the limit
C19_Witness ==
    /\ last.op = "positional_correction"
    /\ TheContact.penetration > 5 * SCALE
    /\ \E h \in {1, 2} :
          /\ last.prev_heap[h].inv_mass = SCALE
          /\ Displacement(h) = MAX_CORRECTION_PER_ITERATION

\* C20: once the application has assigned solver.PERCENT and
\* solver.MAX_CORRECTION_PER_ITERATION, positional_correction corrects by
\* that percentage up to that limit.
C20_ConfiguredCorrection ==
    (last.op = "positional_correction" /\ solver_attrs # NoAttr) =>
        heap = Correction(last.prev_heap, TheContact, solver_attrs[1].PERCENT,
                          solver_attrs[1].MAX_CORRECTION_PER_ITERATION)

\* C21: after every step() on an unpaused system every particle in the list
\* has a zero force accumulator, so that no force is carried into the next
\* step's accumulation phase.
C21_ForcesCleared ==
    Stepped => \A h \in HandlesOf(particles) : heap[h].force = ZeroVec

\* C22: integrate_particle, on an alive, awake, finite-mass particle with
\* zero damping, returns with position x + v * dt + 0.5 * a_old * dt^2,
\* acceleration a_new = force * inv_mass and velocity
\* v + 0.5 * (a_old + a_new) * dt.
C22_VelocityVerlet ==
    (last.op = "integrate_particle"
        /\ last.prev_heap[1].alive /\ ~last.prev_heap[1].sleeping
        /\ last.prev_heap[1].inv_mass > 0 /\ last.prev_heap[1].damping = 0)
    => /\ ~last.raised
       /\ last.prev_heap[1].acceleration # NoAttr
       /\ LET p == last.prev_heap[1]
              a_old == p.acceleration[1]
              a_new == Vec2(Mul(p.force.x, p.inv_mass), Mul(p.force.y, p.inv_mass))
          IN  /\ heap[1].position =
                     Vec2(p.position.x + Mul(p.velocity.x, last.dt)
                              + Mul(Mul(HALF, a_old.x), Mul(last.dt, last.dt)),
                          p.position.y + Mul(p.velocity.y, last.dt)
                              + Mul(Mul(HALF, a_old.y), Mul(last.dt, last.dt)))
              /\ heap[1].acceleration = <<a_new>>
              /\ heap[1].velocity =
                     Vec2(p.velocity.x + Mul(Mul(HALF, a_old.x + a_new.x), last.dt),
                          p.velocity.y + Mul(Mul(HALF, a_old.y + a_new.y), last.dt))

\* C23: circle_circle(a, b) returns a Contact exactly when the squared centre
\* distance is strictly below the squared radius sum and the particles are
\* not both of zero inverse mass; with coincident centres that contact has
\* the normal (+1, 0) and the radius sum as penetration.
C23_CircleCircle ==
    last.op = "circle_circle" =>
        LET delta == VecSub(heap[2].position, heap[1].position)
            radius_sum == heap[1].radius + heap[2].radius
            overlapping == delta.x * delta.x + delta.y * delta.y < radius_sum * radius_sum
            both_static == heap[1].inv_mass = 0 /\ heap[2].inv_mass = 0
        IN  /\ (Len(last.contacts) = 1) <=> (overlapping /\ ~both_static)
            /\ Len(last.contacts) \in {0, 1}
            /\ (Len(last.contacts) = 1 /\ delta = ZeroVec) =>
                   /\ last.contacts[1].normal = Vec2(SCALE, 0)
                   /\ last.contacts[1].penetration = radius_sum
                   /\ last.contacts[1].a = 1 /\ last.contacts[1].b = 2

C23_Witness ==
    /\ last.op = "circle_circle"
    /\ heap[1].position = heap[2].position
    /\ Len(last.contacts) = 1

\* the exactly touching pair is among the inputs and yields no contact
C23_TouchingReached ==
    /\ last.op = "circle_circle"
    /\ heap[1].position = Vec2(5000, 5000) /\ heap[2].position = Vec2(7000, 5000)
    /\ heap[1].radius = 1000 /\ heap[2].radius = 1000
    /\ heap[1].inv_mass > 0
    /\ last.contacts = None

\* C24: CircleContainer.generate_contacts returns exactly one contact, of
\* penetration distance + particle radius - container radius, when distance +
\* particle radius exceeds the container radius, and no contact otherwise,
\* for every particle position, the container centre included.
C24_CircleContainer ==
    last.op = "CircleContainer.generate_contacts" =>
        LET p == heap[last.h]
            dist == length(VecSub(p.position, containers[2].center))
        IN  IF dist + p.radius > containers[2].radius
            THEN /\ Len(last.contacts) = 1
                 /\ last.contacts[1].penetration = dist + p.radius - containers[2].radius
            ELSE last.contacts = << >>

\* C25: every Contact produced by circle_circle, by
\* RectangleContainer.generate_contacts or by CircleContainer.generate_contacts
\* has a penetration strictly greater than 0 and a normal of unit length (up
\* to the rounding of the division by the distance).
NormalTolerance == 20

C25_PositiveUnit ==
    \A i \in 1..Len(last.contacts) :
        /\ last.contacts[i].penetration > 0
        /\ length(last.contacts[i].normal) >= SCALE - NormalTolerance
        /\ length(last.contacts[i].normal) <= SCALE + NormalTolerance

\* the contact of wall number w (left, right, top, bottom) of the box for the
\* particle p held by h, or nothing when p does not pass that wall
WallContact(w, h, p) ==
    LET box == containers[1]
        overshoot == <<box.min.x - (p.position.x - p.radius),
                       (p.position.x + p.radius) - box.max.x,
                       box.min.y - (p.position.y - p.radius),
                       (p.position.y + p.radius) - box.max.y>>
        normal == <<Vec2(-SCALE, 0), Vec2(SCALE, 0), Vec2(0, -SCALE), Vec2(0, SCALE)>>
    IN  IF overshoot[w] > 0
        THEN << [a |-> h, b |-> 0, normal |-> normal[w], penetration |-> overshoot[w]] >>
        ELSE << >>

\* C26: RectangleContainer.generate_contacts returns one contact per violated
\* wall and nothing else, each with the particle as a, a static body as b,
\* the axis-aligned normal towards that wall and the overshoot past that wall
\* as penetration.
C26_RectangleContainer ==
    last.op = "RectangleContainer.generate_contacts" =>
        [i \in 1..Len(last.contacts) |->
            [a |-> last.contacts[i].a, b |-> last.contacts[i].b,
             normal |-> last.contacts[i].normal,
             penetration |-> last.contacts[i].penetration]]
          = WallContact(1, last.h, heap[last.h]) \o WallContact(2, last.h, heap[last.h])
              \o WallContact(3, last.h, heap[last.h]) \o WallContact(4, last.h, heap[last.h])

\* a particle in a corner of the box: two contacts
C26_Witness ==
    /\ last.op = "RectangleContainer.generate_contacts"
    /\ Len(last.contacts) = 2

\* a particle within all four walls: no contact
C26_InsideReached ==
    /\ last.op = "RectangleContainer.generate_contacts"
    /\ heap[last.h].position = Vec2(500, 500) /\ heap[last.h].radius = 500
    /\ last.contacts = << >>

\* the separation of the endpoints of the constraint in the heap hp, and how
\* far it is off the target distance
Separation(hp) == length(VecSub(hp[2].position, hp[1].position))

SeparationError(hp) == Separation(hp) - constraints[1].distance

\* the endpoints before the solve are alive, apart and off target
Solvable ==
    /\ last.op = "solve"
    /\ last.prev_heap[1].alive /\ last.prev_heap[2].alive
    /\ Separation(last.prev_heap) >= EPSILON
    /\ Abs(SeparationError(last.prev_heap)) >= EPSILON

\* the direction and the shares of the two endpoints are exact in the
\* arithmetic of the model
ExactlyRepresented ==
    LET delta == VecSub(last.prev_heap[2].position, last.prev_heap[1].position)
        total == last.prev_heap[1].inv_mass + last.prev_heap[2].inv_mass
    IN  /\ length_squared(VecDiv(delta, Separation(last.prev_heap))) = SCALE * SCALE
        /\ total > 0 =>
               Div(last.prev_heap[1].inv_mass, total)
                   + Div(last.prev_heap[2].inv_mass, total) = SCALE

\* what the solve moved the endpoint h by
Moved(h) == VecSub(heap[h].position, last.prev_heap[h].position)

\* the two displacements lie on the connecting line, a towards b and b
\* towards a when the endpoints are too far apart, and are in the ratio
\* inv_mass_a : inv_mass_b
AlongLineInRatio ==
    LET delta == VecSub(last.prev_heap[2].position, last.prev_heap[1].position)
    IN  /\ \A h \in {1, 2} : Moved(h).x * delta.y = Moved(h).y * delta.x
        /\ dot(Moved(1), delta) * SeparationError(last.prev_heap) >= 0
        /\ dot(Moved(2), delta) * SeparationError(last.prev_heap) <= 0
        /\ length(Moved(1)) * last.prev_heap[2].inv_mass
               = length(Moved(2)) * last.prev_heap[1].inv_mass

\* the error left is (1 - stiffness) times the error before
ErrorScaled ==
    SeparationError(heap)
        = Mul(SCALE - constraints[1].stiffness, SeparationError(last.prev_heap))

\* displacement / dt is added to the velocity of each endpoint
VelocityFollows ==
    \A h \in {1, 2} :
        heap[h].velocity = Vec2(last.prev_heap[h].velocity.x + Div(Moved(h).x, last.dt),
                                last.prev_heap[h].velocity.y + Div(Moved(h).y, last.dt))

\* nothing but position and velocity of the endpoints changes
OnlyMotionChanged ==
    \A h \in {1, 2} :
        heap[h] = [last.prev_heap[h] EXCEPT !.position = heap[h].position,
                                            !.velocity = heap[h].velocity]

\* C27 as stated: a solve(dt) on alive endpoints that are apart and off
\* target moves them along their line in the ratio of the inverse masses,
\* leaves (1 - stiffness) of the error and, for a dt it can divide by, adds
\* displacement / dt to the velocities; with a dead endpoint it changes nothing.
C27_SolveAsStated ==
    /\ (Solvable /\ ExactlyRepresented) =>
           /\ AlongLineInRatio
           /\ ErrorScaled
           /\ last.dt > 0 => VelocityFollows
           /\ OnlyMotionChanged
    /\ (last.op = "solve" /\ (~last.prev_heap[1].alive \/ ~last.prev_heap[2].alive)) =>
           heap = last.prev_heap

\* C27 amended: the same, provided that at least one endpoint has a non-zero
\* inverse mass (otherwise solve changes nothing), and with the velocities
\* changed only for a dt above the near-zero epsilon.
C27_Solve ==
    /\ (Solvable /\ ExactlyRepresented) =>
           IF last.prev_heap[1].inv_mass + last.prev_heap[2].inv_mass < EPSILON
           THEN heap = last.prev_heap
           ELSE /\ AlongLineInRatio
                /\ ErrorScaled
                /\ IF last.dt > 0 THEN VelocityFollows
                   ELSE \A h \in {1, 2} : heap[h].velocity = last.prev_heap[h].velocity
                /\ OnlyMotionChanged
    /\ (last.op = "solve" /\ (~last.prev_heap[1].alive \/ ~last.prev_heap[2].alive)) =>
           heap = last.prev_heap

C27_Witness ==
    /\ Solvable /\ ExactlyRepresented
    /\ last.prev_heap[1].inv_mass = 4000 /\ last.prev_heap[2].inv_mass = 1000
    /\ constraints[1].stiffness = 500
    /\ last.dt > 0
    /\ Moved(1) # ZeroVec /\ Moved(2) # ZeroVec
    /\ Moved(1).x # 0 /\ Moved(1).y # 0

\* mass_a * velocity_a + mass_b * velocity_b of the two particles in the heap hp
Momentum(hp) ==
    Vec2(hp[1].mass * hp[1].velocity.x + hp[2].mass * hp[2].velocity.x,
         hp[1].mass * hp[1].velocity.y + hp[2].mass * hp[2].velocity.y)

\* C28: resolve_contact on a contact between two alive particles of non-zero
\* inverse mass leaves mass_a * velocity_a + mass_b * velocity_b as it was, up
\* to the rounding of the two velocities.
C28_MomentumConserved ==
    (last.op = "resolve_contact" /\ TheContact.b # 0
        /\ BodyA.alive /\ BodyB.alive /\ BodyA.inv_mass > 0 /\ BodyB.inv_mass > 0)
    => /\ Abs(Momentum(heap).x - Momentum(last.prev_heap).x)
              <= RoundingTolerance * (BodyA.mass + BodyB.mass)
       /\ Abs(Momentum(heap).y - Momentum(last.prev_heap).y)
              <= RoundingTolerance * (BodyA.mass + BodyB.mass)

\* a light particle hits a heavy one and slides along it: the normal and the
\* friction impulse change both velocities
C28_Witness ==
    /\ Approaching /\ TheContact.b # 0
    /\ BodyA.mass = 500 /\ BodyB.mass = 2000
    /\ heap[1].velocity.x # last.prev_heap[1].velocity.x
    /\ heap[1].velocity.y # last.prev_heap[1].velocity.y
    /\ heap[2].velocity.x # last.prev_heap[2].velocity.x
    /\ heap[2].velocity.y # last.prev_heap[2].velocity.y

\* C29: while the controller is paused, should_step() returns True exactly
\* when a request_step() was made while paused since the last should_step()
\* that returned True while paused, and that call consumes the request; a
\* request_step() made while not paused changes nothing, and while not paused
\* should_step() returns True.
C29_SingleStep ==
    /\ (last.op = "should_step" /\ last.prev.paused) =>
           /\ last.ret = last.before.step_open
           /\ ~last.asked.step_open
           /\ should_step(controller).ret = FALSE
    /\ (last.op = "should_step" /\ ~last.prev.paused) =>
           last.ret /\ controller = last.prev
    /\ (last.op = "s" /\ ~last.prev.paused) => controller = last.prev

\* a paused should_step() that granted the single step asked for
C29_Witness ==
    /\ last.op = "should_step"
    /\ last.prev.paused
    /\ last.before.step_open
    /\ last.ret

\* C30: request_reset() leaves the controller paused with a reset pending;
\* should_reset() returns True exactly when a reset was requested since it
\* last returned True; a round of the main loop rebuilds the scene exactly
\* then, and calls ParticleSystem.step only if, since the last request for a
\* reset, the user has unpaused or asked for a single step.
C30_Reset ==
    /\ last.op = "r" => (controller.paused /\ controller._reset_requested)
    /\ last.op = "should_reset" =>
           (last.ret = last.before.reset_open /\ should_reset(controller).ret = FALSE)
    /\ last.op = "frame" =>
           /\ last.rebuilt = last.seen.reset_open
           /\ ~last.asked.reset_open
           /\ ~last.unasked

====
